---- MODULE Spec2Model ----
(***************************************************************************)
(* A model of the EHR access layer of prosper: the structured-protocol     *)
(* transport (GraphQLHealthieClient), the UI-automation transport          *)
(* (PlaywrightHealthieClient), the in-memory FakeEHRClient, the EHRService *)
(* facade and the agent's ToolHandlers.                                    *)
(*                                                                         *)
(* Python strings are sequences of one-character strings, so that          *)
(* lower(), the "in" substring test, "; ".join and f-strings are computed  *)
(* rather than assumed.  None is the empty sequence for a string, a date  *)
(* or a time, and 0 for a token.                                           *)
(***************************************************************************)
EXTENDS Integers, Sequences, FiniteSets, TLC

VARIABLES
    \* ---- GraphQLHealthieClient ----
    credentials,        \* _email and _password are both set
    token,              \* _token: 0 is None, n > 0 a bearer token
    appointment_type,   \* _appointment_type_id and _contact_type
    issued,             \* server side: the last token a signIn returned
    calls,              \* the public operations in flight, one record each
    concurrency,        \* how many operations the caller keeps in flight
    opsLeft,            \* operations the caller still starts
    wire,               \* server side: what this client has sent so far
    \* ---- EHRService over one transport ----
    client,             \* the transport the service wraps, with its fields
    last,               \* the last call made on the service and how it ended
    svcOpsLeft,         \* calls the caller still makes on the service
    \* ---- ToolHandlers over the service ----
    inv,                \* the last handler invocation and what it delivered
    toolOpsLeft,        \* tool calls the LLM still makes
    \* ---- PlaywrightHealthieClient ----
    pw,                 \* its fields: credentials, _playwright, _browser, _page
    pwop,               \* the public operation in progress
    pwOpsLeft,          \* operations the caller still starts
    \* ---- the helper functions of the adapters ----
    fmt,                \* one call of a helper: its argument and its result
    \* ---- ToolCallFillerProcessor ----
    filler              \* the processor, its tasks and what it has pushed

gqlVars == <<credentials, token, appointment_type, issued, calls, concurrency, opsLeft, wire>>

svcVars == <<client, last, svcOpsLeft>>

toolVars == <<inv, toolOpsLeft>>

pwVars == <<pw, pwop, pwOpsLeft>>

vars == <<gqlVars, svcVars, toolVars, pwVars, fmt, filler>>

\* what the actions of one component leave alone
notGql == <<svcVars, toolVars, pwVars, fmt, filler>>
notSvc == <<gqlVars, toolVars, pwVars, fmt, filler>>
notTool == <<gqlVars, svcOpsLeft, pwVars, fmt, filler>>
notPw == <<gqlVars, svcVars, toolVars, fmt, filler>>
notFmt == <<gqlVars, svcVars, toolVars, pwVars, filler>>
notFiller == <<gqlVars, svcVars, toolVars, pwVars, fmt>>

(***************************************************************************)
(* Bounds of the model.                                                    *)
(***************************************************************************)
NumCalls == 1       \* call slots of the structured transport
MaxOps == 2         \* public operations started on one GraphQLHealthieClient
NumData == 1        \* distinct non-empty payloads the server answers with
MaxSvcOps == 3      \* calls made on one EHRService
MaxToolOps == 1     \* tool calls handled by one ToolHandlers
MaxPwOps == 3       \* public operations started on one PlaywrightHealthieClient
MaxFrames == 3      \* frames that reach one ToolCallFillerProcessor

(***************************************************************************)
(* Strings.                                                                *)
(***************************************************************************)
UpperChars == <<"A","B","C","D","E","F","G","H","I","J","K","L","M",
                "N","O","P","Q","R","S","T","U","V","W","X","Y","Z">>
LowerChars == <<"a","b","c","d","e","f","g","h","i","j","k","l","m",
                "n","o","p","q","r","s","t","u","v","w","x","y","z">>

\* str.lower() on one character
LowerChar(c) ==
    IF \E i \in DOMAIN UpperChars : UpperChars[i] = c
    THEN LowerChars[CHOOSE i \in DOMAIN UpperChars : UpperChars[i] = c]
    ELSE c

\* str.lower()
ToLower(s) == [i \in DOMAIN s |-> LowerChar(s[i])]

\* sub in s
Contains(sub, s) ==
    \E i \in 0..(Len(s) - Len(sub)) : SubSeq(s, i + 1, i + Len(sub)) = sub

\* sep.join(parts)
RECURSIVE Join(_, _)
Join(sep, parts) ==
    IF Len(parts) = 0 THEN <<>>
    ELSE IF Len(parts) = 1 THEN parts[1]
    ELSE parts[1] \o sep \o Join(sep, Tail(parts))

SemiSpace == <<";", " ">>

(***************************************************************************)
(* GraphQLHealthieClient._looks_like_auth_error                            *)
(***************************************************************************)
AuthKeys == {
    <<"u","n","a","u","t","h","o","r","i","z","e","d">>,
    <<"n","o","t"," ","a","u","t","h","o","r","i","z","e","d">>,
    <<"f","o","r","b","i","d","d","e","n">>,
    <<"e","x","p","i","r","e","d">>,
    <<"i","n","v","a","l","i","d"," ","t","o","k","e","n">>,
    <<"j","w","t">>,
    <<"a","u","t","h","e","n","t","i","c","a","t","i","o","n">> }

\* mutant: every `errors` payload counts as an authentication failure
looks_like_auth_error_any(message) == TRUE

looks_like_auth_error(message) ==
    \E key \in AuthKeys : Contains(key, ToLower(message))

(***************************************************************************)
(* Domain: exceptions (prosper.domain.exceptions) and models.              *)
(* An exception is a record: its class, str(exc), the attributes of the    *)
(* appointment errors, and obj, which tells the object a transport raised  *)
(* (1) from one constructed by the service (2).                            *)
(***************************************************************************)
NoExc == [type |-> "none"]

\* Exception, RuntimeError, KeyError, TypeError, EHRError, EHRUnavailableError: str(exc) is the message
PlainError(type, msg, obj) ==
    [type |-> type, msg |-> msg, reason |-> <<>>,
     patient_id |-> "None", appointment_id |-> "None", obj |-> obj]

EHRUnavailableError(msg, obj) == PlainError("EHRUnavailableError", msg, obj)

AppointmentCreationError(reason, patient_id, obj) ==
    [type |-> "AppointmentCreationError",
     msg |-> <<"F","a","i","l","e","d"," ","t","o"," ","c","r","e","a","t","e"," ","a","p","p","o","i","n","t","m","e","n","t",":"," ">> \o reason, reason |-> reason,
     patient_id |-> patient_id, appointment_id |-> "None", obj |-> obj]

AppointmentCancellationError(reason, appointment_id, obj) ==
    [type |-> "AppointmentCancellationError",
     msg |-> <<"F","a","i","l","e","d"," ","t","o"," ","c","a","n","c","e","l"," ","a","p","p","o","i","n","t","m","e","n","t",":"," ">> \o reason, reason |-> reason,
     patient_id |-> "None", appointment_id |-> appointment_id, obj |-> obj]

\* the classes of the taxonomy: EHRError and its three subclasses
TaxonomyTypes ==
    {"EHRError", "EHRUnavailableError", "AppointmentCreationError",
     "AppointmentCancellationError"}

Boom == <<"b","o","o","m">>

\* the exceptions a test loads into FakeEHRClient.*_error, and the ones an
\* arbitrary implementation of EHRClientProtocol may raise
InjectedErrors ==
    { PlainError("EHRError", Boom, 1),
      EHRUnavailableError(<<"d","o","w","n">>, 1),
      AppointmentCreationError(Boom, "p9", 1),
      AppointmentCancellationError(Boom, "a9", 1),
      PlainError("RuntimeError", Boom, 1),
      PlainError("KeyError", <<"'","i","d","'">>, 1) }

\* dt.date values are <<year, month, day>>, dt.time values are
\* <<hour, minute, second, microsecond>>, None is <<>>
D1 == <<2003, 5, 18>>
D2 == <<1990, 1, 1>>

Patient(patient_id, first_name, last_name, date_of_birth) ==
    [patient_id |-> patient_id, first_name |-> first_name,
     last_name |-> last_name, date_of_birth |-> date_of_birth]

PMarcA == Patient("1", <<"M","a","r","c">>, <<"A">>, D1)
PMarcB == Patient("2", <<"M","a","r","c">>, <<"B">>, D2)
PMarco == Patient("3", <<"m","a","r","c","o">>, <<"C">>, D1)
PBob == Patient("4", <<"B","o","b">>, <<"D">>, <<>>)

\* the patient lists a transport holds or answers with
PatientLists ==
    { <<>>, <<PMarcA, PMarcB>>, <<PMarcB, PMarco, PMarcA>>, <<PBob, PMarcA, PMarco>> }

AppointmentRequest(patient_id, date, time) ==
    [patient_id |-> patient_id, date |-> date, time |-> time]

Appointment(appointment_id, patient_id, date, time, status) ==
    [appointment_id |-> appointment_id, patient_id |-> patient_id,
     date |-> date, time |-> time, status |-> status]

\* how a call ends (kind comes first: TLC compares two records field by
\* field in the order the field names first appear in the module)
NoOutcome == [kind |-> "none", value |-> <<>>, exc |-> NoExc]
Return(value) == [kind |-> "return", value |-> value, exc |-> NoExc]
Raise(exc) == [kind |-> "raise", value |-> <<>>, exc |-> exc]

(***************************************************************************)
(* JSON values (a string, a number, null, or a missing key) and the        *)
(* parsing and formatting of dates and times.                              *)
(***************************************************************************)
Str(s) == [t |-> "str", s |-> s]
Num(n) == [t |-> "int", n |-> n]
Null == [t |-> "null"]
Missing == [t |-> "missing"]

\* params.arguments.get(key, "")
Get(value) == IF value = Missing THEN Str(<<>>) ELSE value

\* bool(value)
Truthy(value) ==
    \/ value.t = "str" /\ value.s # <<>>
    \/ value.t = "int" /\ value.n # 0

DigitChars == <<"0","1","2","3","4","5","6","7","8","9">>

IsDigit(c) == \E i \in DOMAIN DigitChars : DigitChars[i] = c

DigitVal(c) == (CHOOSE i \in DOMAIN DigitChars : DigitChars[i] = c) - 1

AllDigits(s) == \A i \in DOMAIN s : IsDigit(s[i])

\* int(s) of a string of digits
RECURSIVE Number(_)
Number(s) ==
    IF s = <<>> THEN 0
    ELSE Number(SubSeq(s, 1, Len(s) - 1)) * 10 + DigitVal(s[Len(s)])

\* n written with at least `width` digits: f"{n:0{width}d}"
RECURSIVE Pad(_, _)
Pad(n, width) ==
    IF n < 10 /\ width <= 1 THEN <<DigitChars[n + 1]>>
    ELSE Pad(n \div 10, width - 1) \o <<DigitChars[(n % 10) + 1]>>

IsLeap(y) == (y % 4 = 0 /\ y % 100 # 0) \/ y % 400 = 0

DaysInMonth(y, m) ==
    IF m = 2 THEN (IF IsLeap(y) THEN 29 ELSE 28)
    ELSE IF m \in {4, 6, 9, 11} THEN 30 ELSE 31

\* dt.date.fromisoformat on a string written YYYY-MM-DD; <<>> is ValueError
date_fromisoformat(s) ==
    IF /\ Len(s) = 10 /\ s[5] = "-" /\ s[8] = "-"
       /\ AllDigits(SubSeq(s, 1, 4)) /\ AllDigits(SubSeq(s, 6, 7))
       /\ AllDigits(SubSeq(s, 9, 10))
    THEN LET y == Number(SubSeq(s, 1, 4))
             m == Number(SubSeq(s, 6, 7))
             d == Number(SubSeq(s, 9, 10))
         IN  IF y >= 1 /\ m \in 1..12 /\ d >= 1 /\ d <= DaysInMonth(y, m)
             THEN <<y, m, d>> ELSE <<>>
    ELSE <<>>

\* dt.time.fromisoformat on a string written HH:MM or HH:MM:SS, as
\* <<hour, minute, second, microsecond>>; <<>> is ValueError
time_fromisoformat(s) ==
    IF /\ Len(s) \in {5, 8} /\ s[3] = ":"
       /\ AllDigits(SubSeq(s, 1, 2)) /\ AllDigits(SubSeq(s, 4, 5))
       /\ Len(s) = 8 => (s[6] = ":" /\ AllDigits(SubSeq(s, 7, 8)))
    THEN LET h == Number(SubSeq(s, 1, 2))
             m == Number(SubSeq(s, 4, 5))
             sec == IF Len(s) = 8 THEN Number(SubSeq(s, 7, 8)) ELSE 0
         IN  IF h <= 23 /\ m <= 59 /\ sec <= 59 THEN <<h, m, sec, 0>> ELSE <<>>
    ELSE <<>>

\* date.isoformat()
isoformat(date) ==
    IF date = <<>> THEN <<>>
    ELSE Pad(date[1], 4) \o <<"-">> \o Pad(date[2], 2) \o <<"-">> \o Pad(date[3], 2)

\* time.strftime("%H:%M")
strftime_HM(time) ==
    IF time = <<>> THEN <<>> ELSE Pad(time[1], 2) \o <<":">> \o Pad(time[2], 2)

(***************************************************************************)
(* prosper.ehr.adapters.parsing_helpers.parse_name_dob                     *)
(***************************************************************************)
\* [A-Za-z], [A-Za-z\- ] and \s of the pattern
IsLetter(c) == \E i \in DOMAIN UpperChars : c = UpperChars[i] \/ c = LowerChars[i]
IsNameChar(c) == IsLetter(c) \/ c \in {"-", " "}
IsSpace(c) == c \in {" ", "\t", "\n", "\r", "\f"}

\* the character at position i, "" past the end
At(text, i) == IF i \in 1..Len(text) THEN text[i] ELSE ""

\* \((\d{1,2})/(\d{1,2})/(\d{4})\) tried at position p: groups 2, 3 and 4,
\* <<>> when it does not match there
DateAt(text, p) ==
    LET Fits(n1, n2) ==
            /\ At(text, p) = "("
            /\ \A j \in 1..n1 : IsDigit(At(text, p + j))
            /\ At(text, p + n1 + 1) = "/"
            /\ \A j \in 1..n2 : IsDigit(At(text, p + n1 + 1 + j))
            /\ At(text, p + n1 + n2 + 2) = "/"
            /\ \A j \in 1..4 : IsDigit(At(text, p + n1 + n2 + 2 + j))
            /\ At(text, p + n1 + n2 + 7) = ")"
        fits == {n \in (1..2) \X (1..2) : Fits(n[1], n[2])}
    IN  IF fits = {} THEN <<>>
        ELSE LET n == CHOOSE n \in fits : TRUE
             IN  [month |-> SubSeq(text, p + 1, p + n[1]),
                  day |-> SubSeq(text, p + n[1] + 2, p + n[1] + n[2] + 1),
                  year |-> SubSeq(text, p + n[1] + n[2] + 3, p + n[1] + n[2] + 6)]

\* \s* after position k: the last position of the run of whitespace
WhitespaceEnd(text, k) ==
    CHOOSE q \in k..Len(text) :
        /\ \A j \in (k + 1)..q : IsSpace(text[j])
        /\ ~IsSpace(At(text, q + 1))

\* the ends group 1 can have when the match starts at position i
GroupEnds(text, i) ==
    {k \in (i + 1)..Len(text) :
        /\ \A j \in (i + 1)..k : IsNameChar(text[j])
        /\ DateAt(text, WhitespaceEnd(text, k) + 1) # <<>>}

Least(set) == CHOOSE n \in set : \A m \in set : n <= m

\* re.search(r"([A-Za-z][A-Za-z\- ]+?)\s*\((\d{1,2})/(\d{1,2})/(\d{4})\)", text):
\* the leftmost start, and from it the shortest group 1; <<>> is no match
re_search(text) ==
    LET starts == {i \in 1..Len(text) : IsLetter(text[i]) /\ GroupEnds(text, i) # {}}
    IN  IF starts = {} THEN <<>>
        ELSE LET i == Least(starts)
                 k == Least(GroupEnds(text, i))
                 groups == DateAt(text, WhitespaceEnd(text, k) + 1)
             IN  [name |-> SubSeq(text, i, k), month |-> groups.month,
                  day |-> groups.day, year |-> groups.year]

\* str.strip()
RECURSIVE strip(_)
strip(s) ==
    IF s = <<>> THEN s
    ELSE IF IsSpace(s[1]) THEN strip(Tail(s))
    ELSE IF IsSpace(s[Len(s)]) THEN strip(SubSeq(s, 1, Len(s) - 1))
    ELSE s

\* str.split(): the words of s
RECURSIVE split(_)
split(s) ==
    LET t == strip(s)
        ends == {k \in 1..Len(t) : IsSpace(At(t, k + 1)) \/ k = Len(t)}
    IN  IF t = <<>> THEN <<>>
        ELSE <<SubSeq(t, 1, Least(ends))>> \o split(SubSeq(t, Least(ends) + 1, Len(t)))

\* dt.date(year, month, day): the date, or the ValueError it raises
dt_date(year, month, day) ==
    IF year < 1
    THEN Raise(PlainError("ValueError", <<"y","e","a","r"," ","0"," ","i","s"," ","o","u","t"," ","o","f"," ","r","a","n","g","e">>, 1))
    ELSE IF month \notin 1..12
    THEN Raise(PlainError("ValueError", <<"m","o","n","t","h"," ","m","u","s","t"," ","b","e"," ","i","n"," ","1",".",".","1","2">>, 1))
    ELSE IF day < 1 \/ day > DaysInMonth(year, month)
    THEN Raise(PlainError("ValueError", <<"d","a","y"," ","i","s"," ","o","u","t"," ","o","f"," ","r","a","n","g","e"," ","f","o","r"," ","m","o","n","t","h">>, 1))
    ELSE Return(<<year, month, day>>)

\* parse_name_dob(text): (first_name, last_name, dob), None (<<>>), or the
\* exception of dt.date, which is built before the words are counted
parse_name_dob(text) ==
    LET match == re_search(text)
    IN  IF match = <<>> THEN Return(<<>>)
        ELSE LET dob == dt_date(Number(match.year), Number(match.month), Number(match.day))
                 name_parts == split(strip(match.name))
             IN  IF dob.kind = "raise" THEN dob
                 ELSE IF Len(name_parts) < 2 THEN Return(<<>>)
                 ELSE Return([first_name |-> name_parts[1],
                              last_name |-> Join(<<" ">>, Tail(name_parts)),
                              dob |-> dob.value])

\* extract_id_from_url(url): re.search(r"/(?:patients|clients|users)/(\d+)", url),
\* the digits, or None (<<>>)
extract_id_from_url(url) ==
    LET prefixes == { <<"/","p","a","t","i","e","n","t","s","/">>, <<"/","c","l","i","e","n","t","s","/">>, <<"/","u","s","e","r","s","/">> }
        After(i) == {i + Len(p) : p \in {p \in prefixes :
                        /\ i + Len(p) - 1 <= Len(url)
                        /\ SubSeq(url, i, i + Len(p) - 1) = p}}
        starts == {i \in 1..Len(url) : \E j \in After(i) : IsDigit(At(url, j))}
    IN  IF starts = {} THEN <<>>
        ELSE LET j == CHOOSE j \in After(Least(starts)) : TRUE
                 last_digit == CHOOSE k \in j..Len(url) :
                                   /\ \A n \in j..k : IsDigit(url[n])
                                   /\ ~IsDigit(At(url, k + 1))
             IN  SubSeq(url, j, last_digit)

\* one turn of the loop of _parse_patient_results for a link with an id:
\* the row is skipped when parse_name_dob returns None
row_patient(patient_id, parsed) ==
    IF parsed.kind = "raise" THEN parsed
    ELSE IF parsed.value = <<>> THEN Return(<<>>)
    ELSE Return(<<Patient(patient_id, parsed.value.first_name,
                          parsed.value.last_name, parsed.value.dob)>>)

\* one turn of the loop: the link is skipped when it has no id
parse_row(row) ==
    IF extract_id_from_url(row.href) = <<>> THEN Return(<<>>)
    ELSE row_patient(extract_id_from_url(row.href), parse_name_dob(row.text))

\* the loop goes on after a turn: an exception ends it
scanned_after(turn, rest) ==
    IF turn.kind = "raise" THEN turn
    ELSE IF rest.kind = "raise" THEN rest
    ELSE Return(turn.value \o rest.value)

\* PlaywrightHealthieClient._parse_patient_results over the profile links
\* of the page, each with its href and the text of its row
RECURSIVE parse_patient_results(_)
parse_patient_results(rows) ==
    IF rows = <<>> THEN Return(<<>>)
    ELSE scanned_after(parse_row(rows[1]), parse_patient_results(Tail(rows)))

(***************************************************************************)
(* What the remote GraphQL endpoint may answer.                            *)
(***************************************************************************)
MsgUnauthorized == <<"U","n","a","u","t","h","o","r","i","z","e","d">>
MsgExpired == <<"T","o","k","e","n"," ","E","x","p","i","r","e","d">>
MsgNotFound == <<"N","o","t"," ","f","o","u","n","d">>
MsgSlotTaken == <<"S","l","o","t"," ","t","a","k","e","n">>

\* the `errors` lists of a 200 response: each entry is one error's message
ErrorLists == { <<MsgUnauthorized>>, <<MsgExpired>>, <<MsgNotFound>>,
                <<MsgNotFound, MsgExpired>>, <<MsgNotFound, MsgSlotTaken>> }

\* the `messages` lists of a mutation result
MessageLists == { <<>>, <<MsgSlotTaken>> }

\* the timestamps `appointment.date` comes back as
StampAfternoon == <<"2","0","2","6","-","0","9","-","1","5"," ","1","6",":","0","0",":","0","0"," ","+","0","2","0","0">>
StampNight == <<"2","0","2","6","-","0","9","-","1","5"," ","0","1",":","3","0",":","0","0"," ","+","0","0","0","0">>

\* the `appointment` object of a mutation result: null, or an object whose
\* id and date may be there, missing or null
AppointmentPayloads ==
    {Null}
    \cup [t : {"obj"}, id : {Str(<<"1","0","0">>)},
          date : {Str(StampAfternoon), Str(StampNight), Str(<<>>), Str(<<"2","0","2","6","-","0","9","-","1","5">>),
                  Missing, Null}]
    \cup [t : {"obj"}, id : {Missing}, date : {Str(StampAfternoon)}]

\* `available_contact_types` of the first appointment type of a listing:
\* absent, null or empty (<<>>), or a list of which the first entry counts
ContactTypeLists == { <<>>, <<"Phone Call">>, <<"">> }

\* the `users` of a search answer: each with id, names and a `dob` that is
\* an ISO date, some other string, empty, null or not there
User(id, first_name, last_name, dob) ==
    [id |-> Str(id), first_name |-> Str(first_name), last_name |-> Str(last_name),
     dob |-> dob]

UserLists ==
    { <<>>,
      <<User(<<"7">>, <<"M","a","r","c">>, <<"C","a","m","p","s">>, Str(<<"2","0","0","3","-","0","5","-","1","8">>)),
        User(<<"8">>, <<"M","a","r","c">>, <<"B","a","d">>, Str(<<"1","8","/","0","5","/","2","0","0","3">>)),
        User(<<"9">>, <<"M","a","r","c">>, <<"L","e","a","p">>, Str(<<"2","0","0","3","-","0","2","-","2","9">>)),
        User(<<"1","0">>, <<"M","a","r","c">>, <<"N","u","l","l">>, Null),
        User(<<"1","1">>, <<"M","a","r","c">>, <<"G","o","n","e">>, Missing),
        User(<<"1","2">>, <<"M","a","r","c">>, <<"E","m","p","t","y">>, Str(<<>>)),
        User(<<"1","3">>, <<"M","a","r","c","o">>, <<"P","o","l","o">>, Str(<<"1","9","9","0","-","0","1","-","0","1">>))>> }

\* answers to a data request: a decoded 200 body without errors, an HTTP
\* error status (raise_for_status), a network or decoding exception, a 200
\* body with an `errors` list
DataResponses ==
    [kind : {"ok"}, data : 0..NumData, messages : MessageLists,
     appointment : AppointmentPayloads, contact_types : ContactTypeLists,
     users : UserLists]
    \cup [kind : {"http"}, status : {401, 403, 500}]
    \cup [kind : {"exc"}]
    \cup [kind : {"errors"}, errors : ErrorLists]

\* what the body of a 200 answer to each query is made of: a mutation
\* result has messages and an appointment, a listing has its entries
\* (`data`: whether a patient search found any, with the users found in
\* `users`; for a types listing 0 is the empty list and n > 0 a list whose
\* first type has the id n)
Answers(query) ==
    {r \in DataResponses :
        r.kind = "ok" =>
            IF query \in {"createAppointment", "updateAppointment"}
            THEN r.data = 0 /\ r.contact_types = <<>> /\ r.users = <<>>
            ELSE /\ r.messages = <<>> /\ r.appointment = Null
                 /\ query # "users" => r.users = <<>>
                 /\ query = "users" => r.data = (IF r.users = <<>> THEN 0 ELSE 1)
                 /\ (query # "appointmentTypes" \/ r.data = 0) => r.contact_types = <<>>}

\* answers to the signIn mutation: a token, messages, neither, messages
\* with a token, or no answer that raise_for_status and json() accept
SignInResponses ==
    [kind : {"token", "messages", "notoken", "exc", "both"}]

(***************************************************************************)
(* GraphQLHealthieClient: one record per public operation in flight.       *)
(*   pc        "idle", "await_signin", "await_data" or "done"              *)
(*   op        search, create, cancel or health                            *)
(*   query     the query of the _graphql invocation in progress            *)
(*   arg       its variables                                               *)
(*   retry     _retry_on_auth of the innermost _graphql frame              *)
(*   tok       the local `token` the request in flight was sent with       *)
(* and, as history of the outermost _graphql invocation in progress:       *)
(*   hadToken  a token was cached when it was entered                      *)
(*   sent      the data requests it sent, oldest first                     *)
(*   signins   the signIn requests it sent                                 *)
(*   retries   the times it cleared the token and entered _graphql again   *)
(*   last      the last answer to a data request                           *)
(*   signin    the last answer to a signIn request                         *)
(*   gql       "none", "return" or "raise": how it ended, gqlData its value*)
(* and the operation's result: outcome, exc, reason, value, opData.        *)
(***************************************************************************)
Calls == DOMAIN calls

Ops == {"search", "create", "cancel", "health"}

NoResponse == [kind |-> "none"]

IdleCall ==
    [pc |-> "idle", op |-> "none", query |-> "none", arg |-> 0,
     retry |-> TRUE, tok |-> 0, hadToken |-> FALSE, sent |-> <<>>,
     signins |-> 0, retries |-> 0, last |-> NoResponse,
     gql |-> "none", gqlData |-> 0,
     outcome |-> "none", exc |-> "none", reason |-> <<>>, value |-> 0,
     opData |-> 0, request |-> <<>>, raised |-> NoExc, signin |-> NoResponse]

\* the cache of _ensure_appointment_type before the first listing: both
\* fields None (0 and "" stand for it: the code tests only their truth)
NoAppointmentType == [id |-> 0, contact_type |-> ""]

\* what _ensure_appointment_type stores from the first type of a listing
AppointmentType(id, contact_types) ==
    [id |-> id,
     contact_type |-> IF contact_types # <<>> THEN contact_types[1]
                      ELSE "Healthie Video Call"]

\* if self._appointment_type_id and self._contact_type
Cached(at) == at.id # 0 /\ at.contact_type # ""

\* the state an operation reads and writes: its own record and the client's fields
Ctx(call, tk, at) == [call |-> call, token |-> tk, appointment_type |-> at]

\* the operation ends by raising
OpRaise(call, exc, reason) ==
    [call EXCEPT !.pc = "done", !.outcome = "raise", !.exc = exc, !.reason = reason]

\* the operation ends by returning
OpReturn(call, value) ==
    [call EXCEPT !.pc = "done", !.outcome = "return", !.value = value]

\* mutant: health_check lets the exception through
HealthCheckReraises(call, exc) ==
    [call EXCEPT !.pc = "done", !.outcome = "raise", !.exc = exc]

\* health_check catches every exception and returns False (0)
HealthCheckCatches(call, exc) == OpReturn(call, 0)

\* _graphql raises EHRUnavailableError to the public operation
GraphqlRaise(call) ==
    LET c1 == [call EXCEPT !.gql = "raise"]
    IN  IF call.op = "health"
        THEN HealthCheckCatches(c1, "EHRUnavailableError")
        ELSE OpRaise(c1, "EHRUnavailableError", <<>>)

\* mutant: the headers of a data request are those of the signIn request
auth_headers_of_sign_in(tk) ==
    [Authorization |-> <<>>, AuthorizationSource |-> "Web",
     ContentType |-> "application/json"]

\* _auth_headers(token); <<"Bearer", tk>> is f"Bearer {token}"
auth_headers(tk) ==
    [Authorization |-> <<"Bearer", tk>>, AuthorizationSource |-> "Web",
     ContentType |-> "application/json"]

\* the POST of a data request with the bearer token tk
PostData(call, tk) ==
    [call EXCEPT !.pc = "await_data", !.tok = tk, !.opData = @ + 1,
                 !.sent = Append(@, [query |-> call.query, arg |-> call.arg, tok |-> tk,
                                    headers |-> auth_headers(tk)])]

\* mutant: a signIn is sent before every data request, token or no token
EnsureAuthenticatedAfresh(call, tk, at) ==
    IF ~credentials
    THEN IF tk # 0 THEN Ctx(PostData(call, tk), tk, at) ELSE Ctx(GraphqlRaise(call), tk, at)
    ELSE Ctx([call EXCEPT !.pc = "await_signin", !.signins = @ + 1], tk, at)

\* mutant: the sign-in is attempted without looking at the credentials
EnsureAuthenticatedUnchecked(call, tk, at) ==
    IF tk # 0 THEN Ctx(PostData(call, tk), tk, at)
    ELSE Ctx([call EXCEPT !.pc = "await_signin", !.signins = @ + 1], tk, at)

\* _ensure_authenticated up to its first await, and the POST that follows it
\* without suspension when a token is cached
EnsureAuthenticated(call, tk, at) ==
    IF tk # 0 THEN Ctx(PostData(call, tk), tk, at)
    ELSE IF ~credentials THEN Ctx(GraphqlRaise(call), tk, at)
    ELSE Ctx([call EXCEPT !.pc = "await_signin", !.signins = @ + 1], tk, at)

\* a public operation enters _graphql(query) with _retry_on_auth = True
EnterGraphql(call, query, tk, at) ==
    EnsureAuthenticated(
        [call EXCEPT !.query = query, !.retry = TRUE, !.hadToken = (tk # 0),
                     !.sent = <<>>, !.signins = 0, !.retries = 0,
                     !.last = NoResponse, !.gql = "none", !.gqlData = 0,
                     !.signin = NoResponse],
        tk, at)

\* mutant: a rejected retry is retried once more
RetryOnAuthTwice(call, tk, at) ==
    EnsureAuthenticated([call EXCEPT !.retry = (call.retries = 0), !.retries = @ + 1], 0, at)

\* mutant: the retry is entered with _retry_on_auth still True
RetryAgain(call, tk, at) ==
    EnsureAuthenticated([call EXCEPT !.retries = @ + 1], 0, at)

\* mutant: the rejected token is not cleared before the retry
RetryKeepsToken(call, tk, at) ==
    EnsureAuthenticated([call EXCEPT !.retry = FALSE, !.retries = @ + 1], tk, at)

\* self._token = None; return await self._graphql(query, variables, _retry_on_auth=False)
RetryOnAuth(call, tk, at) ==
    EnsureAuthenticated([call EXCEPT !.retry = FALSE, !.retries = @ + 1], 0, at)

\* the offset of the clinic timezone from UTC, in minutes: America/New_York
\* in daylight time, where the timestamps above fall
ClinicUtcOffset(date) == 0 - 240

\* dt.datetime.strptime(s, "%Y-%m-%d %H:%M:%S %z") on a string written
\* YYYY-MM-DD HH:MM:SS +HHMM, as <<date, minute of the day, offset>>;
\* <<>> is ValueError
strptime(s) ==
    IF /\ Len(s) = 25
       /\ date_fromisoformat(SubSeq(s, 1, 10)) # <<>>
       /\ s[11] = " "
       /\ time_fromisoformat(SubSeq(s, 12, 19)) # <<>>
       /\ s[20] = " " /\ s[21] \in {"+", "-"}
       /\ AllDigits(SubSeq(s, 22, 25)) /\ Number(SubSeq(s, 24, 25)) <= 59
    THEN LET t == time_fromisoformat(SubSeq(s, 12, 19))
             off == Number(SubSeq(s, 22, 23)) * 60 + Number(SubSeq(s, 24, 25))
         IN  << date_fromisoformat(SubSeq(s, 1, 10)), t[1] * 60 + t[2],
                IF s[21] = "-" THEN 0 - off ELSE off >>
    ELSE <<>>

\* the day before and the day after a date
DayBefore(d) ==
    IF d[3] > 1 THEN <<d[1], d[2], d[3] - 1>>
    ELSE IF d[2] > 1 THEN <<d[1], d[2] - 1, DaysInMonth(d[1], d[2] - 1)>>
    ELSE <<d[1] - 1, 12, 31>>

DayAfter(d) ==
    IF d[3] < DaysInMonth(d[1], d[2]) THEN <<d[1], d[2], d[3] + 1>>
    ELSE IF d[2] < 12 THEN <<d[1], d[2] + 1, 1>>
    ELSE <<d[1] + 1, 1, 1>>

RECURSIVE ShiftDays(_, _)
ShiftDays(d, n) ==
    IF n = 0 THEN d
    ELSE IF n < 0 THEN ShiftDays(DayBefore(d), n + 1)
    ELSE ShiftDays(DayAfter(d), n - 1)

\* aware_dt.astimezone(self._clinic_tz), then .date() and
\* .time().replace(second=0, microsecond=0)
astimezone(stamp) ==
    LET local == stamp[2] - stamp[3] + ClinicUtcOffset(stamp[1])
        minute == local % 1440
    IN  [date |-> ShiftDays(stamp[1], local \div 1440),
         time |-> <<minute \div 60, minute % 60, 0, 0>>]

\* result.get("appointment") or {}, then .get(key, default)
Field(appointment, key, default) ==
    IF appointment = Null THEN default
    ELSE IF appointment[key] = Missing THEN default
    ELSE appointment[key]

\* str(value) of a JSON value
str(value) == IF value = Null THEN <<"N","o","n","e">> ELSE value.s

\* GraphQLHealthieClient.search_patients once _graphql has returned the users
search_patients_result(users) ==
    Return([i \in DOMAIN users |->
        LET dob_raw == IF users[i].dob \in {Null, Missing} THEN <<>> ELSE users[i].dob.s
        IN  Patient(str(users[i].id), Get(users[i].first_name).s, Get(users[i].last_name).s,
                    IF dob_raw # <<>> THEN date_fromisoformat(dob_raw) ELSE <<>>)])

\* mutant: the appointment returned carries the date the response echoes
create_appointment_echo(request, resp) ==
    IF resp.messages # <<>>
    THEN Raise(AppointmentCreationError(Join(SemiSpace, resp.messages),
                                        request.patient_id, 1))
    ELSE LET raw == Field(resp.appointment, "date", Str(<<>>))
             stamp == IF raw = Null THEN <<>> ELSE strptime(raw.s)
         IN  Return(Appointment(
                 str(Field(resp.appointment, "id", Str(<<"u","n","k","n","o","w","n">>))),
                 request.patient_id,
                 IF stamp = <<>> THEN <<>> ELSE astimezone(stamp).date,
                 request.time, "scheduled"))

\* create_appointment once _graphql has returned the mutation's data
create_appointment_result(request, resp) ==
    IF resp.messages # <<>>
    THEN Raise(AppointmentCreationError(Join(SemiSpace, resp.messages),
                                        request.patient_id, 1))
    ELSE Return(Appointment(
             str(Field(resp.appointment, "id", Str(<<"u","n","k","n","o","w","n">>))),
             request.patient_id, request.date, request.time, "scheduled"))

StrptimeTypeError == <<"s","t","r","p","t","i","m","e","(",")"," ","a","r","g","u","m","e","n","t"," ","1"," ","m","u","s","t"," ","b","e"," ","s","t","r",","," ","n","o","t"," ","N","o","n","e">>

\* cancel_appointment once _graphql has returned the mutation's data: only
\* ValueError is caught around strptime
cancel_appointment_result(appointment_id, resp) ==
    IF resp.messages # <<>>
    THEN Raise(AppointmentCancellationError(Join(SemiSpace, resp.messages),
                                            appointment_id, 1))
    ELSE LET raw_date == Field(resp.appointment, "date", Str(<<>>))
             id == str(Field(resp.appointment, "id", Str(appointment_id)))
         IN  IF raw_date = Null
             THEN Raise(PlainError("TypeError", StrptimeTypeError, 1))
             ELSE IF strptime(raw_date.s) = <<>>
             THEN Return(Appointment(id, <<>>, <<>>, <<>>, "cancelled"))
             ELSE Return(Appointment(id, <<>>, astimezone(strptime(raw_date.s)).date,
                                     astimezone(strptime(raw_date.s)).time, "cancelled"))

\* a public operation ends the way `out` says
OpEnd(call, out) ==
    IF out.kind = "raise"
    THEN [call EXCEPT !.pc = "done", !.outcome = "raise", !.exc = out.exc.type,
                      !.reason = out.exc.reason, !.raised = out.exc]
    ELSE [call EXCEPT !.pc = "done", !.outcome = "return", !.value = out.value]

\* _graphql returned `data` to the public operation, which goes on
GraphqlReturn(call, resp, tk, at) ==
    LET c1 == [call EXCEPT !.gql = "return", !.gqlData = resp.data]
    IN  CASE call.query = "users" ->
                Ctx(OpEnd(c1, search_patients_result(resp.users)), tk, at)
          [] call.query = "healthCheck" -> Ctx(OpReturn(c1, 1), tk, at)
          [] call.query = "appointmentTypes" ->
                IF resp.data = 0
                THEN Ctx(OpRaise(c1, "AppointmentCreationError", <<>>), tk, at)
                ELSE EnterGraphql(c1, "createAppointment", tk,
                                  AppointmentType(resp.data, resp.contact_types))
          [] call.query = "createAppointment" ->
                Ctx(OpEnd(c1, create_appointment_result(call.request, resp)), tk, at)
          [] call.query = "updateAppointment" ->
                Ctx(OpEnd(c1, cancel_appointment_result(call.request, resp)), tk, at)

\* the answer to a data request arrives in _graphql
Graphql(call, resp, tk, at) ==
    LET c1 == [call EXCEPT !.last = resp]
    IN  CASE resp.kind = "http" ->
                IF c1.retry /\ resp.status \in {401, 403}
                THEN RetryOnAuth(c1, tk, at)
                ELSE Ctx(GraphqlRaise(c1), tk, at)
          [] resp.kind = "exc" -> Ctx(GraphqlRaise(c1), tk, at)
          [] resp.kind = "errors" ->
                IF c1.retry /\ looks_like_auth_error(Join(SemiSpace, resp.errors))
                THEN RetryOnAuth(c1, tk, at)
                ELSE Ctx(GraphqlRaise(c1), tk, at)
          [] resp.kind = "ok" -> GraphqlReturn(c1, resp, tk, at)

\* the argument of a public operation: the request of a create, the
\* appointment id of a cancel
Arguments(op) ==
    CASE op = "create" -> {AppointmentRequest(<<"p","1">>, <<2026, 3, 15>>, <<14, 30, 0, 0>>)}
      [] op = "cancel" -> {<<"a","1">>}
      [] OTHER -> {<<>>}

\* mutant: create_appointment lists the types whether or not they are cached
FirstQueryUncached(op, at) ==
    CASE op = "search" -> "users"
      [] op = "cancel" -> "updateAppointment"
      [] op = "health" -> "healthCheck"
      [] op = "create" -> "appointmentTypes"

\* the first query of a public operation; create_appointment starts with
\* _ensure_appointment_type, which lists the types unless they are cached
FirstQuery(op, at) ==
    CASE op = "search" -> "users"
      [] op = "cancel" -> "updateAppointment"
      [] op = "health" -> "healthCheck"
      [] op = "create" -> IF Cached(at) THEN "createAppointment" ELSE "appointmentTypes"

InFlight == {c \in Calls : calls[c].pc # "idle"}

\* the operations whose data request is unanswered
AwaitingData == {c \in Calls : calls[c].pc = "await_data"}

\* nothing sent, no operation called
NoWire ==
    [listings |-> 0, relisted |-> 0, mutations |-> 0, created |-> 0,
     other |-> FALSE, refused |-> FALSE, blank |-> FALSE,
     counted |-> FALSE, signins |-> 0, rejections |-> 0, failures |-> 0,
     preset |-> FALSE]

\* the record of a client built with the token tk (0: without one) whose
\* signIn requests and rejections are counted
InitialWire(tk) == [NoWire EXCEPT !.counted = TRUE, !.preset = (tk # 0)]

\* the server's record after a step that turned the operation `old` into
\* `new`: the requests counted by query, a listing counted apart when an
\* earlier listing had returned a non-empty list, the creates that
\* returned, whether any other operation was called or any operation
\* raised, whether any request was answered with anything but a success,
\* and whether a listing came with an empty string as its contact type
Tally(old, new, failed, blank) ==
    LET sends == new.opData > old.opData
        One(b) == IF b THEN 1 ELSE 0
    IN  [listings |-> wire.listings + One(sends /\ new.query = "appointmentTypes"),
         relisted |-> wire.relisted
                        + One(sends /\ new.query = "appointmentTypes"
                              /\ appointment_type.id # 0),
         mutations |-> wire.mutations + One(sends /\ new.query = "createAppointment"),
         created |-> wire.created
                        + One(new.pc = "done" /\ new.op = "create"
                              /\ new.outcome = "return"),
         other |-> wire.other \/ new.op # "create"
                        \/ (new.pc = "done" /\ new.outcome = "raise"),
         refused |-> wire.refused \/ failed,
         blank |-> wire.blank \/ blank,
         counted |-> wire.counted,
         signins |-> wire.signins, rejections |-> wire.rejections,
         failures |-> wire.failures, preset |-> wire.preset]

\* the answer to a data request is one _graphql takes for a rejection of
\* the bearer token
Rejects(resp) ==
    \/ resp.kind = "http" /\ resp.status \in {401, 403}
    \/ resp.kind = "errors" /\ looks_like_auth_error(Join(SemiSpace, resp.errors))

\* the record `w` with this step counted in, where they are counted: a
\* signIn request sent (the operation now awaits its answer), a data
\* request rejected, a signIn request that failed
Counted(w, new, data, failedSignIn) ==
    LET One(b) == IF b THEN 1 ELSE 0
    IN  IF ~w.counted THEN w
        ELSE [w EXCEPT !.signins = @ + One(new.pc = "await_signin"),
                       !.rejections = @ + One(data.kind # "none" /\ Rejects(data)),
                       !.failures = @ + One(failedSignIn)]

Apply(c, ctx) ==
    /\ calls' = [calls EXCEPT ![c] = ctx.call]
    /\ token' = ctx.token
    /\ appointment_type' = ctx.appointment_type

\* search_patients, create_appointment, cancel_appointment or health_check is called
StartOp(c, op) ==
    /\ opsLeft > 0
    /\ calls[c].pc = "idle"
    /\ \A d \in Calls : d < c => calls[d].pc # "idle"
    /\ Cardinality(InFlight) < concurrency
    /\ opsLeft' = opsLeft - 1
    /\ \E a \in Arguments(op) :
           Apply(c, EnterGraphql([IdleCall EXCEPT !.op = op, !.arg = 1, !.request = a],
                                 FirstQuery(op, appointment_type), token, appointment_type))
    /\ wire' = Counted(Tally(IdleCall, calls'[c], FALSE, FALSE), calls'[c], NoResponse, FALSE)
    /\ UNCHANGED <<credentials, issued, concurrency>>
    /\ UNCHANGED notGql

\* mutant: the token of an answer is taken whatever its messages say
SignedInDespiteMessages(r) == r.kind \in {"token", "both"}

\* _ensure_authenticated after its POST: the answer gives a token to cache
\* when it has no messages and a token
SignedIn(r) == r.kind = "token"

\* the signIn request of call c is answered
SignInResponse(c, r) ==
    /\ calls[c].pc = "await_signin"
    /\ LET call == [calls[c] EXCEPT !.signin = r]
       IN  IF SignedIn(r)
           THEN /\ issued' = issued + 1
                /\ Apply(c, Ctx(PostData(call, issued + 1), issued + 1, appointment_type))
           ELSE /\ issued' = issued
                /\ Apply(c, Ctx(GraphqlRaise(call), token, appointment_type))
    /\ wire' = Counted(Tally(calls[c], calls'[c], ~SignedIn(r), FALSE), calls'[c],
                        NoResponse, ~SignedIn(r))
    /\ UNCHANGED <<credentials, concurrency, opsLeft>>
    /\ UNCHANGED notGql

\* the data request of call c is answered
DataResponse(c, r) ==
    /\ calls[c].pc = "await_data"
    /\ r \in Answers(calls[c].query)
    /\ Apply(c, Graphql(calls[c], r, token, appointment_type))
    /\ wire' = Counted(Tally(calls[c], calls'[c], r.kind # "ok" \/ r.messages # <<>>,
                              r.kind = "ok" /\ r.contact_types = <<"">>),
                        calls'[c], r, FALSE)
    /\ UNCHANGED <<credentials, issued, concurrency, opsLeft>>
    /\ UNCHANGED notGql

\* the caller has taken the result of call c
Finish(c) ==
    /\ calls[c].pc = "done"
    /\ calls' = [calls EXCEPT ![c] = IdleCall]
    /\ UNCHANGED <<credentials, token, appointment_type, issued, concurrency, opsLeft, wire>>
    /\ UNCHANGED notGql

(***************************************************************************)
(* Properties of the authentication retry.                                 *)
(***************************************************************************)
\* an answer that rejects the bearer token: 401, 403, or an `errors` list
\* with one of the messages "Unauthorized" and "Token Expired" in it
IsAuthRejection(resp) ==
    \/ resp.kind = "http" /\ resp.status \in {401, 403}
    \/ resp.kind = "errors" /\ \E i \in DOMAIN resp.errors :
           resp.errors[i] \in {MsgUnauthorized, MsgExpired}

\* the signIn requests of an invocation that re-authenticate after a rejection
ReSignIns(k) == k.signins - (IF k.hadToken THEN 0 ELSE 1)

\* C1: with a cached token and configured credentials, a first data request
\* that is rejected (401, 403, auth-like errors) makes _graphql clear the
\* token and send one signIn; once that signIn has yielded a token the same
\* query is sent once more with the new token, and _graphql returns the data
\* of that second answer; the invocation never sends more than 2 data
\* requests.
C1_RetryOnceAfterRejection ==
    \A c \in Calls :
        LET k == calls[c] IN
        /\ Len(k.sent) <= 2
        /\ (k.hadToken /\ credentials /\ k.last.kind # "none"
              /\ Len(k.sent) = 1 /\ IsAuthRejection(k.last)) =>
                /\ k.retries = 1 /\ k.signins = 1
                /\ k.pc = "await_signin" => token = 0
                /\ k.gql # "return"
        /\ (k.hadToken /\ credentials /\ Len(k.sent) = 2) =>
                /\ k.retries = 1 /\ k.signins = 1
                /\ k.sent[2].query = k.sent[1].query
                /\ k.sent[2].arg = k.sent[1].arg
                /\ k.sent[2].tok > k.sent[1].tok
                /\ k.sent[2].tok <= issued
                /\ k.sent[2].tok = k.tok
                /\ k.gql = "return" => (k.last.kind = "ok" /\ k.gqlData = k.last.data)
                /\ (k.pc = "done" /\ k.last.kind = "ok") => k.gql = "return"

C1_Witness ==
    \E c \in Calls :
        LET k == calls[c] IN
        /\ k.hadToken /\ credentials /\ k.retries = 1 /\ Len(k.sent) = 2
        /\ k.gql = "return" /\ k.op = "search" /\ k.outcome = "return"

\* the request sent again after re-authentication was rejected again
RetryRejected(k) ==
    /\ k.retries >= 1 /\ Len(k.sent) = 2 /\ k.pc # "await_data"
    /\ k.last.kind # "none" /\ IsAuthRejection(k.last)

\* C2 as stated: after a second rejection the public operation raises
\* EHRUnavailableError, whichever operation it is, having sent no third data
\* request and no second signIn.
C2_SecondRejectionRaises ==
    \A c \in Calls :
        LET k == calls[c] IN
        RetryRejected(k) =>
            /\ k.pc = "done" /\ k.outcome = "raise" /\ k.exc = "EHRUnavailableError"
            /\ Len(k.sent) = 2 /\ ReSignIns(k) = 1

\* C2 amended: after a second rejection _graphql raises EHRUnavailableError,
\* which search, create and cancel propagate and health_check turns into
\* False; no third data request and no second re-authenticating signIn is
\* sent by that invocation.
C2_SecondRejectionEnds ==
    \A c \in Calls :
        LET k == calls[c] IN
        /\ ReSignIns(k) <= 1
        /\ RetryRejected(k) =>
            /\ k.pc = "done" /\ k.gql = "raise"
            /\ Len(k.sent) = 2 /\ ReSignIns(k) = 1
            /\ k.op # "health" => (k.outcome = "raise" /\ k.exc = "EHRUnavailableError")
            /\ k.op = "health" => (k.outcome = "return" /\ k.value = 0)

C2_Witness ==
    \E c \in Calls :
        LET k == calls[c] IN
        RetryRejected(k) /\ k.op = "cancel" /\ k.outcome = "raise" /\ ~k.hadToken

(***************************************************************************)
(* The transports as EHRService sees them.  client.kind is "graphql",      *)
(* "playwright", "fake", or "protocol": any other implementation of        *)
(* EHRClientProtocol.  For the two Healthie transports `remote` is the     *)
(* outcome the remote system leads the transport to; FakeEHRClient         *)
(* computes its own.  For ToolHandlers there is one more kind, "service":  *)
(* self._ehr is some other AbstractEHRService than EHRService, and client  *)
(* stands for it.                                                          *)
(***************************************************************************)
ClientKinds == {"graphql", "playwright", "fake", "protocol"}

NewClient(kind) ==
    [kind |-> kind, patients |-> <<>>, created |-> <<>>, cancelled |-> <<>>,
     closed |-> FALSE, closes |-> 0,
     search_error |-> NoExc, create_error |-> NoExc, cancel_error |-> NoExc]

\* a transport call's effect: the transport afterwards, how the call ended,
\* and whether the body of the transport's method was entered
Did(cl, out, reached) == [client |-> cl, out |-> out, reached |-> reached]

\* the outcomes the transports' own code can end a search with
RemoteSearch(kind) ==
    {Return(l) : l \in PatientLists}
    \cup {Raise(EHRUnavailableError(<<"d","o","w","n">>, 1))}
    \cup (IF kind = "graphql" THEN {Raise(PlainError("KeyError", <<"'","i","d","'">>, 1))} ELSE {})
    \cup (IF kind \in {"protocol", "service"} THEN {Raise(e) : e \in InjectedErrors} ELSE {})

RemoteCreate(kind) ==
    {Return("77"), Return("unknown")}
    \cup {Raise(EHRUnavailableError(<<"d","o","w","n">>, 1)),
          Raise(AppointmentCreationError(<<"S","l","o","t"," ","t","a","k","e","n">>, "p1", 1))}
    \cup (IF kind = "graphql" THEN {Raise(PlainError("KeyError", <<"'","i","d","'">>, 1))} ELSE {})
    \cup (IF kind \in {"protocol", "service"} THEN {Raise(e) : e \in InjectedErrors} ELSE {})

RemoteCancel(kind) ==
    {Return(D1), Return(<<>>)}
    \cup {Raise(EHRUnavailableError(<<"d","o","w","n">>, 1)),
          Raise(AppointmentCancellationError(<<"N","o","t"," ","f","o","u","n","d">>, "a1", 1))}
    \cup (IF kind = "graphql" THEN {Raise(PlainError("TypeError", <<"s","t","r","p","t","i","m","e">>, 1))} ELSE {})
    \cup (IF kind \in {"protocol", "service"} THEN {Raise(e) : e \in InjectedErrors} ELSE {})

\* FakeEHRClient.search_patients
FakeEHRClient_search_patients(cl, keywords) ==
    IF cl.search_error # NoExc THEN Did(cl, Raise(cl.search_error), TRUE)
    ELSE Did(cl, Return(SelectSeq(cl.patients,
                 LAMBDA p : Contains(ToLower(keywords), ToLower(p.first_name)))), TRUE)

\* FakeEHRClient.create_appointment
FakeEHRClient_create_appointment(cl, request) ==
    IF cl.create_error # NoExc THEN Did(cl, Raise(cl.create_error), TRUE)
    ELSE Did([cl EXCEPT !.created = Append(@, request)],
             Return(Appointment("new-1", request.patient_id, request.date,
                                request.time, "scheduled")), TRUE)

\* FakeEHRClient.cancel_appointment(patient_id, date, time)
FakeEHRClient_cancel_appointment(cl, patient_id, date, time) ==
    IF cl.cancel_error # NoExc THEN Did(cl, Raise(cl.cancel_error), TRUE)
    ELSE Did([cl EXCEPT !.cancelled = Append(@, <<patient_id, date, time>>)],
             Return(Appointment("cancelled-1", patient_id, date, time, "cancelled")), TRUE)

\* client.search_patients(keywords)
Client_search_patients(cl, keywords, remote) ==
    IF cl.kind = "fake" THEN FakeEHRClient_search_patients(cl, keywords)
    ELSE Did(cl, remote, TRUE)

\* client.create_appointment(request)
Client_create_appointment(cl, request, remote) ==
    IF cl.kind = "fake" THEN FakeEHRClient_create_appointment(cl, request)
    ELSE IF remote.kind = "raise" THEN Did(cl, remote, TRUE)
    ELSE Did(cl, Return(Appointment(remote.value, request.patient_id, request.date,
                                    request.time, "scheduled")), TRUE)

\* the positional parameters of the transport's cancel_appointment
CancelParameters(kind) ==
    CASE kind = "graphql" -> <<"appointment_id">>
      [] kind = "protocol" -> <<"appointment_id">>
      [] kind = "service" -> <<"appointment_id">>
      [] kind = "playwright" -> <<"patient_id", "date", "time">>
      [] kind = "fake" -> <<"patient_id", "date", "time">>

MissingArguments ==
    <<"c","a","n","c","e","l","_","a","p","p","o","i","n","t","m","e","n","t","(",")"," ","m","i","s","s","i","n","g"," ","2"," ","r","e","q","u","i","r","e","d"," ","p","o","s","i","t","i","o","n","a","l"," ","a","r","g","u","m","e","n","t","s",":"," ","'","d","a","t","e","'"," ","a","n","d"," ","'","t","i","m","e","'">>

\* client.cancel_appointment(*args): Python binds the arguments before the
\* body runs and raises TypeError when required parameters are left over
Client_cancel_appointment(cl, args, remote) ==
    IF Len(args) # Len(CancelParameters(cl.kind))
    THEN Did(cl, Raise(PlainError("TypeError", MissingArguments, 1)), FALSE)
    ELSE CASE cl.kind = "fake" ->
                FakeEHRClient_cancel_appointment(cl, args[1], args[2], args[3])
           [] cl.kind = "playwright" ->
                IF remote.kind = "raise" THEN Did(cl, remote, TRUE)
                ELSE Did(cl, Return(Appointment("unknown", args[1], args[2], args[3],
                                                "cancelled")), TRUE)
           [] OTHER ->
                IF remote.kind = "raise" THEN Did(cl, remote, TRUE)
                ELSE Did(cl, Return(Appointment(args[1], "", remote.value,
                                    IF remote.value = <<>> THEN <<>> ELSE <<10, 0, 0, 0>>,
                                    "cancelled")), TRUE)

\* client.close(): GraphQLHealthieClient closes its httpx client, whose
\* aclose() does nothing on a closed client; PlaywrightHealthieClient tests
\* its references; FakeEHRClient sets a flag; EHRClientProtocol promises
\* nothing about a repeated call, `fails` says whether it raises then
Client_close(cl, fails) ==
    LET after == [cl EXCEPT !.closed = TRUE, !.closes = @ + 1]
    IN  IF cl.kind = "protocol" /\ cl.closed /\ fails
        THEN Did([cl EXCEPT !.closes = @ + 1],
                 Raise(PlainError("RuntimeError", <<"a","l","r","e","a","d","y"," ","c","l","o","s","e","d">>, 1)), TRUE)
        ELSE Did(after, Return(<<>>), TRUE)

(***************************************************************************)
(* EHRService                                                              *)
(***************************************************************************)
\* what a call on the service does: the transport afterwards, how the call
\* ended (out), how the transport's method ended (tout) and whether its
\* body was entered
Svc(t, out) == [client |-> t.client, out |-> out, tout |-> t.out, reached |-> t.reached]

\* mutant: the filter keeps the patients whose date of birth differs
FilterOthers(patients, date_of_birth) ==
    IF date_of_birth # <<>>
    THEN SelectSeq(patients, LAMBDA p : p.date_of_birth # date_of_birth)
    ELSE patients

\* [p for p in patients if p.date_of_birth == date_of_birth], under `if date_of_birth:`
FilterByDob(patients, date_of_birth) ==
    IF date_of_birth # <<>>
    THEN SelectSeq(patients, LAMBDA p : p.date_of_birth = date_of_birth)
    ELSE patients

\* mutant: find_patient wraps an unexpected exception without its message
WrapSearchBare(exc) == EHRUnavailableError(<<"P","a","t","i","e","n","t"," ","s","e","a","r","c","h"," ","f","a","i","l","e","d">>, 2)

\* EHRUnavailableError(f"Patient search failed: {exc}")
WrapSearch(exc) == EHRUnavailableError(<<"P","a","t","i","e","n","t"," ","s","e","a","r","c","h"," ","f","a","i","l","e","d",":"," ">> \o exc.msg, 2)

\* EHRService.find_patient
EHRService_find_patient(cl, name, date_of_birth, remote) ==
    LET t == Client_search_patients(cl, name, remote)
    IN  IF t.out.kind = "raise"
        THEN IF t.out.exc.type = "EHRUnavailableError"
             THEN Svc(t, t.out)
             ELSE Svc(t, Raise(WrapSearch(t.out.exc)))
        ELSE Svc(t, Return(FilterByDob(t.out.value, date_of_birth)))

\* EHRService.create_appointment
EHRService_create_appointment(cl, request, remote) ==
    LET t == Client_create_appointment(cl, request, remote)
    IN  IF t.out.kind = "raise"
        THEN IF t.out.exc.type \in {"AppointmentCreationError", "EHRUnavailableError"}
             THEN Svc(t, t.out)
             ELSE Svc(t, Raise(AppointmentCreationError(t.out.exc.msg,
                                                        request.patient_id, 2)))
        ELSE Svc(t, t.out)

\* EHRService.cancel_appointment: the transport is called with one argument
EHRService_cancel_appointment(cl, appointment_id, remote) ==
    LET t == Client_cancel_appointment(cl, <<appointment_id>>, remote)
    IN  IF t.out.kind = "raise"
        THEN IF t.out.exc.type \in {"AppointmentCancellationError", "EHRUnavailableError"}
             THEN Svc(t, t.out)
             ELSE Svc(t, Raise(AppointmentCancellationError(t.out.exc.msg,
                                                            appointment_id, 2)))
        ELSE Svc(t, t.out)

\* EHRService.close
EHRService_close(cl, fails) ==
    LET t == Client_close(cl, fails) IN Svc(t, t.out)

\* EHRService.health_check
EHRService_health_check(cl, healthy) ==
    Svc(Did(cl, Return(cl.kind = "fake" \/ healthy), TRUE),
        Return(cl.kind = "fake" \/ healthy))

Names == { <<"M","a","r","c">>, <<"m","a","r","c">>, <<"N","o","b","o","d","y">> }
Dobs == { <<>>, D1, D2 }
Requests == { AppointmentRequest("p1", <<2026, 3, 15>>, <<14, 30, 0, 0>>) }
AppointmentIds == { "a1" }

NoCall == [op |-> "none", args |-> <<>>, remote |-> NoOutcome, reached |-> FALSE,
           tout |-> NoOutcome, out |-> NoOutcome]

\* the record kept of a call on the service
CallRecord(op, args, remote, s) ==
    [op |-> op, args |-> args, remote |-> remote, reached |-> s.reached,
     tout |-> s.tout, out |-> s.out]

Record(op, args, remote, s) ==
    /\ client' = s.client
    /\ last' = CallRecord(op, args, remote, s)
    /\ svcOpsLeft' = svcOpsLeft - 1
    /\ UNCHANGED notSvc

RemoteFor(set) == IF client.kind = "fake" THEN {NoOutcome} ELSE set

\* a test assigns fake_client.patients
FakeLoad(patients) ==
    /\ client.kind = "fake" /\ client.patients = <<>> /\ patients # <<>>
    /\ client' = [client EXCEPT !.patients = patients]
    /\ UNCHANGED <<last, svcOpsLeft, inv, toolOpsLeft, gqlVars, pwVars, fmt, filler>>

\* a test assigns one of fake_client.search_error, create_error, cancel_error
FakeSetError(field, e) ==
    /\ client.kind = "fake"
    /\ client.search_error = NoExc /\ client.create_error = NoExc
    /\ client.cancel_error = NoExc
    /\ client' = [client EXCEPT ![field] = e]
    /\ UNCHANGED <<last, svcOpsLeft, inv, toolOpsLeft, gqlVars, pwVars, fmt, filler>>

SvcFindPatient(name, dob, remote) ==
    /\ svcOpsLeft > 0
    /\ Record("find_patient", <<name, dob>>, remote,
              EHRService_find_patient(client, name, dob, remote))

SvcCreateAppointment(request, remote) ==
    /\ svcOpsLeft > 0
    /\ Record("create_appointment", <<request>>, remote,
              EHRService_create_appointment(client, request, remote))

SvcCancelAppointment(appointment_id, remote) ==
    /\ svcOpsLeft > 0
    /\ Record("cancel_appointment", <<appointment_id>>, remote,
              EHRService_cancel_appointment(client, appointment_id, remote))

SvcHealthCheck(healthy) ==
    /\ svcOpsLeft > 0
    /\ Record("health_check", <<>>, NoOutcome, EHRService_health_check(client, healthy))

SvcClose(fails) ==
    /\ svcOpsLeft > 0
    /\ Record("close", <<>>, NoOutcome, EHRService_close(client, fails))

(***************************************************************************)
(* Properties of EHRService.                                               *)
(***************************************************************************)
ServiceOps == {"find_patient", "create_appointment", "cancel_appointment"}

\* C3: whenever the transport raises an error of the taxonomy (EHRError,
\* EHRUnavailableError, AppointmentCreationError, AppointmentCancellationError)
\* in find_patient, create_appointment or cancel_appointment, the service
\* raises that same error object.
C3_TaxonomyErrorsPassThrough ==
    (last.op \in ServiceOps /\ last.tout.kind = "raise"
        /\ last.tout.exc.type \in TaxonomyTypes)
    => last.out = last.tout

\* C4: an exception of the transport that is not in the taxonomy is raised
\* by the service as a new error: find_patient raises EHRUnavailableError
\* whose message contains the original message, create_appointment raises
\* AppointmentCreationError with the original message as reason and the
\* request's patient id, cancel_appointment raises
\* AppointmentCancellationError with the original message as reason.
C4_UnexpectedErrorsAreWrapped ==
    (last.op \in ServiceOps /\ last.tout.kind = "raise"
        /\ last.tout.exc.type \notin TaxonomyTypes)
    => /\ last.out.kind = "raise"
       /\ last.out.exc.obj = 2
       /\ last.op = "find_patient" =>
            /\ last.out.exc.type = "EHRUnavailableError"
            /\ Contains(last.tout.exc.msg, last.out.exc.msg)
       /\ last.op = "create_appointment" =>
            /\ last.out.exc.type = "AppointmentCreationError"
            /\ last.out.exc.reason = last.tout.exc.msg
            /\ last.out.exc.patient_id = last.args[1].patient_id
       /\ last.op = "cancel_appointment" =>
            /\ last.out.exc.type = "AppointmentCancellationError"
            /\ last.out.exc.reason = last.tout.exc.msg

C4_Witness ==
    /\ last.op = "find_patient" /\ last.tout.kind = "raise"
    /\ last.tout.exc.type = "RuntimeError" /\ client.kind = "fake"
    /\ last.out.kind = "raise" /\ last.out.exc.type = "EHRUnavailableError"

\* the transport's cancel would succeed if it were reached
CancelWouldSucceed ==
    IF client.kind = "fake" THEN client.cancel_error = NoExc
    ELSE last.remote.kind = "return"

\* C5: for the transports the factory selects and for the fake one, a cancel
\* made through the service enters the transport's cancel_appointment, and
\* returns a cancelled Appointment when the transport's cancel succeeds.
C5_CancelReachesTransport ==
    (last.op = "cancel_appointment" /\ client.kind \in {"graphql", "playwright", "fake"})
    => /\ last.reached
       /\ CancelWouldSucceed =>
            (last.out.kind = "return" /\ last.out.value.status = "cancelled")

\* the indices of the transport's results whose date of birth is f
Matching(tr, f) == {i \in DOMAIN tr : tr[i].date_of_birth = f}

\* the k-th smallest element of a set of indices
Kth(M, k) == CHOOSE i \in M : Cardinality({j \in M : j < i}) = k - 1

\* C6: when the transport's search returns, find_patient returns; without a
\* date of birth it returns the transport's list unchanged, with one it
\* returns the transport's results with that date of birth, all of them and
\* in the transport's order (an empty list when there is none).
C6_FindPatientFilters ==
    (last.op = "find_patient" /\ last.tout.kind = "return")
    => /\ last.out.kind = "return"
       /\ LET tr == last.tout.value
              res == last.out.value
              f == last.args[2]
          IN  IF f = <<>> THEN res = tr
              ELSE /\ Len(res) = Cardinality(Matching(tr, f))
                   /\ \A k \in 1..Len(res) : res[k] = tr[Kth(Matching(tr, f), k)]

C6_Witness ==
    /\ last.op = "find_patient" /\ last.out.kind = "return"
    /\ last.args[2] = D1 /\ client.kind = "fake"
    /\ Len(last.tout.value) = 3 /\ last.out.value = <<PMarco, PMarcA>>

\* C10: a call of EHRService.close() does not raise, however many calls of
\* close() came before it and whichever transport is wrapped.
C10_CloseNeverRaises ==
    last.op = "close" => last.out.kind = "return"

(***************************************************************************)
(* ToolHandlers (prosper.agent.tools).                                     *)
(* An argument of a tool call is a JSON value: a string, a number or null; *)
(* a key may be missing from params.arguments.                             *)
(***************************************************************************)
\* a parse result (value, error message); <<>> is None in either place
Parsed(value, err) == [value |-> value, err |-> err]

\* mutant: the message of a malformed date does not name the field
parse_iso_date_unnamed(value, field_name) ==
    IF value.t # "str"
    THEN Parsed(<<>>, <<"I","n","v","a","l","i","d"," ","d","a","t","e"," ","f","o","r","m","a","t",":"," ","m","u","s","t"," ","b","e"," ","a"," ","s","t","r","i","n","g"," ","i","n"," ","Y","Y","Y","Y","-","M","M","-","D","D"," ","f","o","r","m","a","t",".">>)
    ELSE IF date_fromisoformat(value.s) # <<>>
    THEN Parsed(date_fromisoformat(value.s), <<>>)
    ELSE Parsed(<<>>, <<"I","n","v","a","l","i","d"," ","d","a","t","e"," ","f","o","r","m","a","t",":"," ","'">> \o value.s \o <<"'","."," ","E","x","p","e","c","t","e","d"," ","Y","Y","Y","Y","-","M","M","-","D","D",".">>)

\* _parse_iso_date
parse_iso_date(value, field_name) ==
    IF value.t # "str"
    THEN Parsed(<<>>, <<"I","n","v","a","l","i","d"," ","d","a","t","e"," ","f","o","r","m","a","t"," ","f","o","r"," ","'">> \o field_name
                      \o <<"'",":"," ","m","u","s","t"," ","b","e"," ","a"," ","s","t","r","i","n","g"," ","i","n"," ","Y","Y","Y","Y","-","M","M","-","D","D"," ","f","o","r","m","a","t",".">>)
    ELSE IF date_fromisoformat(value.s) # <<>>
    THEN Parsed(date_fromisoformat(value.s), <<>>)
    ELSE Parsed(<<>>, <<"I","n","v","a","l","i","d"," ","d","a","t","e"," ","f","o","r","m","a","t"," ","f","o","r"," ","'">> \o field_name \o <<"'",":"," ","'">>
                      \o value.s \o <<"'","."," ","E","x","p","e","c","t","e","d"," ","Y","Y","Y","Y","-","M","M","-","D","D",".">>)

\* _parse_iso_time
parse_iso_time(value, field_name) ==
    IF value.t # "str"
    THEN Parsed(<<>>, <<"I","n","v","a","l","i","d"," ","t","i","m","e"," ","f","o","r","m","a","t"," ","f","o","r"," ","'">> \o field_name
                      \o <<"'",":"," ","m","u","s","t"," ","b","e"," ","a"," ","s","t","r","i","n","g"," ","i","n"," ","H","H",":","M","M"," ","f","o","r","m","a","t",".">>)
    ELSE IF time_fromisoformat(value.s) # <<>>
    THEN Parsed(time_fromisoformat(value.s), <<>>)
    ELSE Parsed(<<>>, <<"I","n","v","a","l","i","d"," ","t","i","m","e"," ","f","o","r","m","a","t"," ","f","o","r"," ","'">> \o field_name \o <<"'",":"," ","'">>
                      \o value.s \o <<"'","."," ","E","x","p","e","c","t","e","d"," ","H","H",":","M","M",".">>)

\* a or b on two optional strings
OrElse(a, b) == IF a # <<>> THEN a ELSE b

\* dt.datetime.combine(date, time): <<year, month, day, hour, minute, second, microsecond>>
combine(date, time) == date \o time

\* a < b on two datetimes that carry the same tzinfo object: Python compares
\* their wall-clock fields and leaves the offset out
RECURSIVE Before(_, _)
Before(a, b) ==
    IF a = <<>> THEN FALSE
    ELSE IF Head(a) # Head(b) THEN Head(a) < Head(b)
    ELSE Before(Tail(a), Tail(b))

\* self._ehr.find_patient, create_appointment, cancel_appointment: those of
\* EHRService, or of another AbstractEHRService, which end as `remote` says
Service_find_patient(cl, name, date_of_birth, remote) ==
    IF cl.kind = "service"
    THEN LET t == Client_search_patients(cl, name, remote) IN Svc(t, t.out)
    ELSE EHRService_find_patient(cl, name, date_of_birth, remote)

Service_create_appointment(cl, request, remote) ==
    IF cl.kind = "service"
    THEN LET t == Client_create_appointment(cl, request, remote) IN Svc(t, t.out)
    ELSE EHRService_create_appointment(cl, request, remote)

Service_cancel_appointment(cl, appointment_id, remote) ==
    IF cl.kind = "service"
    THEN LET t == Client_cancel_appointment(cl, <<appointment_id>>, remote) IN Svc(t, t.out)
    ELSE EHRService_cancel_appointment(cl, appointment_id, remote)

\* mutant: the appointment is also refused at the current instant
NotAfter(a, b) == a = b \/ Before(a, b)

\* appointment_dt < now
InThePast(appointment_dt, now) == Before(appointment_dt, now)

\* what a handler invocation does: the transport afterwards, the call it
\* made on the service (NoCall when it made none), the results it passed to
\* params.result_callback, and whether an exception left the handler
Handled(cl, svc, delivered) ==
    [client |-> cl, svc |-> svc, delivered |-> delivered, escaped |-> FALSE]

\* mutant: a failure result without the error flag
ErrorResultUnflagged(flag, message) ==
    IF flag = "found"
    THEN [found |-> FALSE, message |-> message]
    ELSE [success |-> FALSE, message |-> message]

\* the result dict of every rejection and of both except clauses
ErrorResult(flag, message) ==
    IF flag = "found"
    THEN [found |-> FALSE, error |-> TRUE, message |-> message]
    ELSE [success |-> FALSE, error |-> TRUE, message |-> message]

PatientEntry(p) ==
    [patient_id |-> p.patient_id,
     name |-> p.first_name \o <<" ">> \o p.last_name,
     date_of_birth |-> isoformat(p.date_of_birth)]

\* mutant: several matches are answered like a single one, with the first
FindResultFirstOnly(patients, name, date_of_birth) ==
    IF Len(patients) = 0
    THEN [found |-> FALSE, message |-> name]
    ELSE [found |-> TRUE, patient_id |-> patients[1].patient_id,
          name |-> PatientEntry(patients[1]).name,
          date_of_birth |-> PatientEntry(patients[1]).date_of_birth]

\* the result dict handle_find_patient builds from the service's list
FindResult(patients, name, date_of_birth) ==
    IF Len(patients) = 0
    THEN [found |-> FALSE,
          message |-> <<"N","o"," ","p","a","t","i","e","n","t"," ","f","o","u","n","d"," ","w","i","t","h"," ","n","a","m","e"," ","'">> \o name
                      \o <<"'"," ","a","n","d"," ","d","a","t","e"," ","o","f"," ","b","i","r","t","h"," ","'">> \o isoformat(date_of_birth) \o <<"'",".">>]
    ELSE IF Len(patients) = 1
    THEN [found |-> TRUE, patient_id |-> patients[1].patient_id,
          name |-> PatientEntry(patients[1]).name,
          date_of_birth |-> PatientEntry(patients[1]).date_of_birth]
    ELSE [found |-> TRUE, multiple_matches |-> TRUE,
          patients |-> [i \in DOMAIN patients |-> PatientEntry(patients[i])],
          message |-> <<"M","u","l","t","i","p","l","e"," ","p","a","t","i","e","n","t","s"," ","f","o","u","n","d","."," ","P","l","e","a","s","e"," ","a","s","k"," ","t","h","e"," ","c","a","l","l","e","r"," ","t","o"," ","c","o","n","f","i","r","m"," ","w","h","i","c","h"," ","o","n","e",".">>]

\* the except clauses of a handler: EHRError gives str(exc), anything else a fixed text
ExceptResult(flag, exc, unexpected) ==
    IF exc.type \in TaxonomyTypes THEN ErrorResult(flag, exc.msg)
    ELSE ErrorResult(flag, unexpected)

\* ToolHandlers.handle_find_patient
handle_find_patient(cl, arguments, remote) ==
    LET name == Get(arguments.name)
        date_of_birth_str == Get(arguments.date_of_birth)
        p == parse_iso_date(date_of_birth_str, <<"d","a","t","e","_","o","f","_","b","i","r","t","h">>)
    IN  IF ~Truthy(name) \/ ~Truthy(date_of_birth_str)
        THEN Handled(cl, NoCall, <<ErrorResult("found",
                 <<"B","o","t","h"," ","'","n","a","m","e","'"," ","a","n","d"," ","'","d","a","t","e","_","o","f","_","b","i","r","t","h","'"," ","a","r","e"," ","r","e","q","u","i","r","e","d",".">>)>>)
        ELSE IF p.err # <<>> \/ p.value = <<>>
        THEN Handled(cl, NoCall, <<ErrorResult("found", OrElse(p.err, <<"I","n","v","a","l","i","d"," ","d","a","t","e",".">>))>>)
        ELSE LET s == Service_find_patient(cl, name.s, p.value, remote)
                 call == CallRecord("find_patient", <<name.s, p.value>>, remote, s)
             IN  IF s.out.kind = "return"
                 THEN Handled(s.client, call, <<FindResult(s.out.value, name.s, p.value)>>)
                 ELSE Handled(s.client, call, <<ExceptResult("found", s.out.exc,
                          <<"A","n"," ","u","n","e","x","p","e","c","t","e","d"," ","e","r","r","o","r"," ","o","c","c","u","r","r","e","d"," ","w","h","i","l","e"," ","s","e","a","r","c","h","i","n","g"," ","f","o","r"," ","t","h","e"," ","p","a","t","i","e","n","t",".">>)>>)

\* mutant: handle_cancel_appointment without its `except Exception` clause
handle_cancel_appointment_unguarded(cl, arguments, remote) ==
    LET appointment_id == Get(arguments.appointment_id)
    IN  IF ~Truthy(appointment_id)
        THEN Handled(cl, NoCall, <<ErrorResult("success", <<"'","a","p","p","o","i","n","t","m","e","n","t","_","i","d","'"," ","i","s"," ","r","e","q","u","i","r","e","d",".">>)>>)
        ELSE LET s == Service_cancel_appointment(cl, appointment_id.s, remote)
                 call == CallRecord("cancel_appointment", <<appointment_id.s>>, remote, s)
             IN  IF s.out.kind = "return"
                 THEN Handled(s.client, call,
                        <<[success |-> TRUE,
                           appointment_id |-> s.out.value.appointment_id,
                           message |-> <<"A","p","p","o","i","n","t","m","e","n","t"," ","c","a","n","c","e","l","l","e","d"," ","s","u","c","c","e","s","s","f","u","l","l","y",".">>]>>)
                 ELSE IF s.out.exc.type \in TaxonomyTypes
                 THEN Handled(s.client, call, <<ErrorResult("success", s.out.exc.msg)>>)
                 ELSE [Handled(s.client, call, <<>>) EXCEPT !.escaped = TRUE]

\* ToolHandlers.handle_cancel_appointment
handle_cancel_appointment(cl, arguments, remote) ==
    LET appointment_id == Get(arguments.appointment_id)
    IN  IF ~Truthy(appointment_id)
        THEN Handled(cl, NoCall, <<ErrorResult("success", <<"'","a","p","p","o","i","n","t","m","e","n","t","_","i","d","'"," ","i","s"," ","r","e","q","u","i","r","e","d",".">>)>>)
        ELSE LET s == Service_cancel_appointment(cl, appointment_id.s, remote)
                 call == CallRecord("cancel_appointment", <<appointment_id.s>>, remote, s)
             IN  IF s.out.kind = "return"
                 THEN Handled(s.client, call,
                        <<[success |-> TRUE,
                           appointment_id |-> s.out.value.appointment_id,
                           message |-> <<"A","p","p","o","i","n","t","m","e","n","t"," ","c","a","n","c","e","l","l","e","d"," ","s","u","c","c","e","s","s","f","u","l","l","y",".">>]>>)
                 ELSE Handled(s.client, call, <<ExceptResult("success", s.out.exc,
                        <<"A","n"," ","u","n","e","x","p","e","c","t","e","d"," ","e","r","r","o","r"," ","o","c","c","u","r","r","e","d"," ","w","h","i","l","e"," ","c","a","n","c","e","l","l","i","n","g"," ","t","h","e"," ","a","p","p","o","i","n","t","m","e","n","t",".">>)>>)

\* ToolHandlers.handle_create_appointment
handle_create_appointment(cl, arguments, remote, now) ==
    LET patient_id == Get(arguments.patient_id)
        date_str == Get(arguments.date)
        time_str == Get(arguments.time)
        d == parse_iso_date(date_str, <<"d","a","t","e">>)
        t == parse_iso_time(time_str, <<"t","i","m","e">>)
        err == OrElse(d.err, t.err)
    IN  IF ~Truthy(patient_id) \/ ~Truthy(date_str) \/ ~Truthy(time_str)
        THEN Handled(cl, NoCall, <<ErrorResult("success",
                 <<"'","p","a","t","i","e","n","t","_","i","d","'",","," ","'","d","a","t","e","'",","," ","a","n","d"," ","'","t","i","m","e","'"," ","a","r","e"," ","a","l","l"," ","r","e","q","u","i","r","e","d",".">>)>>)
        ELSE IF err # <<>> \/ d.value = <<>> \/ t.value = <<>>
        THEN Handled(cl, NoCall, <<ErrorResult("success",
                 OrElse(err, <<"I","n","v","a","l","i","d"," ","d","a","t","e","/","t","i","m","e"," ","f","o","r","m","a","t",".">>))>>)
        ELSE IF InThePast(combine(d.value, t.value), now)
        THEN Handled(cl, NoCall, <<ErrorResult("success",
                 <<"A","p","p","o","i","n","t","m","e","n","t"," ","t","i","m","e"," ","i","s"," ","i","n"," ","t","h","e"," ","p","a","s","t","."," ","P","l","e","a","s","e"," ","p","r","o","v","i","d","e"," ","a"," ","f","u","t","u","r","e"," ","d","a","t","e"," ","a","n","d"," ","t","i","m","e",".">>)>>)
        ELSE LET request == AppointmentRequest(patient_id.s, d.value, t.value)
                 s == Service_create_appointment(cl, request, remote)
                 call == CallRecord("create_appointment", <<request>>, remote, s)
             IN  IF s.out.kind = "return"
                 THEN Handled(s.client, call,
                        <<[success |-> TRUE,
                           appointment_id |-> s.out.value.appointment_id,
                           patient_id |-> s.out.value.patient_id,
                           date |-> isoformat(s.out.value.date),
                           time |-> strftime_HM(s.out.value.time),
                           status |-> s.out.value.status,
                           message |-> <<"A","p","p","o","i","n","t","m","e","n","t"," ","c","r","e","a","t","e","d"," ","s","u","c","c","e","s","s","f","u","l","l","y",".">>]>>)
                 ELSE Handled(s.client, call, <<ExceptResult("success", s.out.exc,
                        <<"A","n"," ","u","n","e","x","p","e","c","t","e","d"," ","e","r","r","o","r"," ","o","c","c","u","r","r","e","d"," ","w","h","i","l","e"," ","c","r","e","a","t","i","n","g"," ","t","h","e"," ","a","p","p","o","i","n","t","m","e","n","t",".">>)>>)

(***************************************************************************)
(* Tool calls.                                                             *)
(***************************************************************************)
NameValues == { Missing, Null, Str(<<>>), Str(<<"M","a","r","c">>) }

DobValues ==
    { Missing, Str(<<>>), Num(20030518), Str(<<"2","0","0","3","-","0","5","-","1","8">>), Str(<<"n","o","t","-","a","-","d","a","t","e">>),
      Str(<<"2","0","0","3","-","1","3","-","0","1">>), Str(<<"2","0","0","3","-","0","2","-","2","9">>) }

PatientIdValues == { Missing, Str(<<>>), Str(<<"p","1">>) }

DateValues ==
    { Missing, Num(20260315), Str(<<"2","0","2","6","-","0","3","-","1","5">>), Str(<<"2","0","2","6","-","0","3","-","1","4">>), Str(<<"b","a","d">>),
      Str(<<"2","0","2","6","-","0","2","-","3","0">>) }

TimeValues ==
    { Missing, Num(1400), Str(<<"1","4",":","0","0">>), Str(<<"1","4",":","0","0",":","3","0">>), Str(<<"b","a","d">>), Str(<<"2","5",":","0","0">>) }

AppointmentIdValues == { Missing, Null, Str(<<>>), Str(<<"a","1">>) }

\* readings of dt.datetime.now(self._clinic_tz)
NowValues ==
    { <<2026, 3, 15, 13, 59, 59, 999999>>, <<2026, 3, 15, 14, 0, 0, 0>>,
      <<2026, 3, 15, 14, 0, 0, 1>> }

NoInvocation ==
    [handler |-> "none", arguments |-> <<>>, now |-> <<>>,
     delivered |-> <<>>, escaped |-> FALSE]

Invoke(handler, arguments, now, h) ==
    /\ toolOpsLeft > 0
    /\ toolOpsLeft' = toolOpsLeft - 1
    /\ client' = h.client
    /\ last' = h.svc
    /\ inv' = [handler |-> handler, arguments |-> arguments, now |-> now,
               delivered |-> h.delivered, escaped |-> h.escaped]
    /\ UNCHANGED notTool

ToolFindPatient(arguments, remote) ==
    Invoke("find_patient", arguments, <<>>,
           handle_find_patient(client, arguments, remote))

ToolCreateAppointment(arguments, remote, now) ==
    Invoke("create_appointment", arguments, now,
           handle_create_appointment(client, arguments, remote, now))

ToolCancelAppointment(arguments, remote) ==
    Invoke("cancel_appointment", arguments, <<>>,
           handle_cancel_appointment(client, arguments, remote))

(***************************************************************************)
(* PlaywrightHealthieClient.                                               *)
(*   pw.page is "none" (None), "app" (a page of the application) or        *)
(*   "sign_in" (a page whose URL contains sign_in).                        *)
(*   pwop.pc follows cancel_appointment from one await to the next.        *)
(***************************************************************************)
MAX_POLL_ATTEMPTS == 20

MonthAbbr == << <<"J","a","n">>, <<"F","e","b">>, <<"M","a","r">>, <<"A","p","r">>, <<"M","a","y">>, <<"J","u","n">>,
                <<"J","u","l">>, <<"A","u","g">>, <<"S","e","p">>, <<"O","c","t">>, <<"N","o","v">>, <<"D","e","c">> >>

\* _date_to_short: f"{date.strftime('%b')} {date.day}, {date.year}"
date_to_short(date) ==
    MonthAbbr[date[2]] \o <<" ">> \o Pad(date[3], 1) \o <<",", " ">> \o Pad(date[1], 1)

\* mutant: noon counts as morning
time_to_12h_noon_am(time) ==
    LET hour == IF time[1] % 12 = 0 THEN 12 ELSE time[1] % 12
        period == IF time[1] <= 12 THEN <<"A","M">> ELSE <<"P","M">>
    IN  Pad(hour, 1) \o <<":">> \o Pad(time[2], 2) \o <<" ">> \o period

\* time_to_12h(time): f"{hour}:{time.strftime('%M')} {period}"
time_to_12h(time) ==
    LET hour == IF time[1] % 12 = 0 THEN 12 ELSE time[1] % 12
        period == IF time[1] < 12 THEN <<"A","M">> ELSE <<"P","M">>
    IN  Pad(hour, 1) \o <<":">> \o Pad(time[2], 2) \o <<" ">> \o period

\* the visible texts of li[data-testid="appointment-preview-item"]
ItemLists ==
    { << <<"M","a","r"," ","1","5",","," ","2","0","2","6"," ","2",":","3","0"," ","P","M"," ","F","o","l","l","o","w","-","u","p">> >>,
      << <<"M","a","r"," ","1","6",","," ","2","0","2","6"," ","2",":","3","0"," ","P","M"," ","F","o","l","l","o","w","-","u","p">>, <<"M","a","r"," ","1","5",","," ","2","0","2","6"," ","2",":","3","0"," ","P","M"," ","F","o","l","l","o","w","-","u","p">> >>,
      << <<"M","a","r"," ","1","5",","," ","2","0","2","6"," ","9",":","0","0"," ","A","M"," ","I","n","t","a","k","e">> >>,
      << <<"M","a","r"," ","1","5",","," ","2","0","2","6"," ","1","2",":","3","0"," ","P","M"," ","I","n","t","a","k","e">>, <<"M","a","r"," ","1","5",","," ","2","0","2","6"," ","2",":","3","0"," ","P","M"," ","F","o","l","l","o","w","-","u","p">> >> }

CancelTargets == { [patient_id |-> "p1", date |-> <<2026, 3, 15>>, time |-> <<14, 30, 0, 0>>] }

\* __init__; browsers and drivers count what this instance has started and
\* nobody has closed or stopped since: the processes, not the fields
NewPw(creds) ==
    [credentials |-> creds, playwright |-> FALSE, browser |-> FALSE, page |-> "none",
     browsers |-> 0, drivers |-> 0]

\* what one turn of the poll loop of create_appointment finds: whether
\* modal.count() is 0, whether warning.count() is positive, and which of
\* its awaits raises: "none", "count" (wait_for_timeout or modal.count())
\* or "warning" (warning.count() or inner_text())
PollSights == [closed : BOOLEAN, warning : BOOLEAN, exc : {"none", "count", "warning"}]

NoSight == [closed |-> FALSE, warning |-> FALSE, exc |-> "unseen"]

IdlePw ==
    [pc |-> "idle", op |-> "none", target |-> <<>>, items |-> <<>>, matched |-> 0,
     polls |-> 0, open |-> FALSE, warned |-> FALSE, out |-> NoOutcome,
     before |-> <<>>, afterClose |-> FALSE, logins |-> 0, probe |-> "none",
     rows |-> <<>>, scanned |-> FALSE, sight |-> NoSight, urlFails |-> FALSE,
     landed |-> "none"]

\* mutant: close() forgets the page when it closes the browser
Pw_close_keeps_page(p) ==
    [p EXCEPT !.browser = FALSE, !.playwright = FALSE,
              !.browsers = IF p.browser THEN @ - 1 ELSE @,
              !.drivers = IF p.playwright THEN @ - 1 ELSE @]

\* PlaywrightHealthieClient.close
Pw_close(p) ==
    [p EXCEPT !.browser = FALSE,
              !.page = IF p.browser THEN "none" ELSE @,
              !.playwright = FALSE,
              !.browsers = IF p.browser THEN @ - 1 ELSE @,
              !.drivers = IF p.playwright THEN @ - 1 ELSE @]

\* an operation ends; health_check turns every exception into False
PwDone(out) ==
    [pwop EXCEPT !.pc = "done",
                 !.out = IF pwop.op = "health" /\ out.kind = "raise"
                         THEN Return(FALSE) ELSE out]

UnexpectedKeyword ==
    <<"A","p","p","o","i","n","t","m","e","n","t","C","a","n","c","e","l","l","a","t","i","o","n","E","r","r","o","r",".","_","_","i","n","i","t","_","_","(",")"," ","g","o","t"," ","a","n"," ","u","n","e","x","p","e","c","t","e","d"," ","k","e","y","w","o","r","d"," ","a","r","g","u","m","e","n","t"," ","'","p","a","t","i","e","n","t","_","i","d","'">>

\* cancel_appointment leaves its try block with an exception: both raise
\* statements build AppointmentCancellationError(reason=..., patient_id=...),
\* a keyword its __init__ does not take, so TypeError is what gets out
CancelFails(op) ==
    [op EXCEPT !.pc = "done", !.out = Raise(PlainError("TypeError", UnexpectedKeyword, 1))]

\* the first list item whose text has both strings in it, 0 when none has
FirstMatch(items, target_date_str, target_time_str) ==
    IF \E i \in DOMAIN items :
           Contains(target_date_str, items[i]) /\ Contains(target_time_str, items[i])
    THEN CHOOSE i \in DOMAIN items :
           /\ Contains(target_date_str, items[i]) /\ Contains(target_time_str, items[i])
           /\ \A j \in 1..(i - 1) :
                ~(Contains(target_date_str, items[j]) /\ Contains(target_time_str, items[j]))
    ELSE 0

\* mutant: the cancelled appointment keeps the status of a created one
CancelledAsScheduled(t) == Appointment("unknown", t.patient_id, t.date, t.time, "scheduled")

\* the Appointment cancel_appointment returns
Cancelled(t) == Appointment("unknown", t.patient_id, t.date, t.time, "cancelled")

\* cancel_appointment(patient_id, date, time) is called: _ensure_logged_in
\* up to its first await
PwOps == {"search", "create", "cancel", "health"}

\* where an operation goes on once _ensure_logged_in has returned the page
PwBody(op) ==
    CASE op = "cancel" -> "navigate"
      [] op = "search" -> "search_body"
      [] op = "create" -> "create_body"
      [] op = "health" -> "health_goto"

NoCredentials == Raise(EHRUnavailableError(<<"H","E","A","L","T","H","I","E","_","E","M","A","I","L"," ","a","n","d"," ","H","E","A","L","T","H","I","E","_","P","A","S","S","W","O","R","D"," ","m","u","s","t"," ","b","e"," ","s","e","t">>, 1))

\* mutant: any page there is gets reused
SessionUsableUnchecked(p, urlFails) == p.page # "none"

\* the session check of _ensure_logged_in: there is a page, reading its URL
\* does not raise, and "sign_in" is not in it
SessionUsable(p, urlFails) == p.page = "app" /\ ~urlFails

\* a public operation is called: _ensure_logged_in up to its first await
PwStart(o, t, urlFails) ==
    /\ pwop.pc = "idle" /\ pwOpsLeft > 0
    /\ pwOpsLeft' = pwOpsLeft - 1
    /\ LET op == [IdlePw EXCEPT !.op = o, !.target = t, !.before = pw,
                                !.afterClose = (pwop.op = "close"),
                                !.urlFails = (urlFails /\ pw.page # "none")]
           p == IF pw.page # "none" /\ ~SessionUsable(pw, urlFails)
                THEN Pw_close(pw) ELSE pw
       IN  IF SessionUsable(pw, urlFails)
           THEN pw' = pw /\ pwop' = [op EXCEPT !.pc = PwBody(o)]
           ELSE IF ~p.credentials
           THEN /\ pw' = p
                /\ pwop' = [op EXCEPT !.pc = "done",
                       !.out = IF o = "health" THEN Return(FALSE) ELSE NoCredentials]
           ELSE pw' = p /\ pwop' = [op EXCEPT !.pc = "login_start", !.logins = 1]
    /\ UNCHANGED notPw

\* cancel_appointment(patient_id, date, time)
PwCancelStart(t, urlFails) == PwStart("cancel", t, urlFails)

\* search_patients(keywords)
PwSearchStart(urlFails) == PwStart("search", <<>>, urlFails)

\* create_appointment(request)
PwCreateStart(t, urlFails) == PwStart("create", t, urlFails)

\* health_check()
PwHealthStart(urlFails) == PwStart("health", <<>>, urlFails)

LoginError == Raise(EHRUnavailableError(<<"H","e","a","l","t","h","i","e"," ","l","o","g","i","n"," ","e","r","r","o","r",":"," ","T","i","m","e","o","u","t">>, 1))

\* async_playwright().start()
PwLoginStart(ok) ==
    /\ pwop.pc = "login_start"
    /\ IF ok THEN pw' = [pw EXCEPT !.playwright = TRUE, !.drivers = @ + 1]
                  /\ pwop' = [pwop EXCEPT !.pc = "login_launch"]
       ELSE pw' = Pw_close(pw) /\ pwop' = PwDone(LoginError)
    /\ UNCHANGED <<pwOpsLeft, notPw>>

\* chromium.launch(...)
PwLoginLaunch(ok) ==
    /\ pwop.pc = "login_launch"
    /\ IF ok THEN pw' = [pw EXCEPT !.browser = TRUE, !.browsers = @ + 1]
                  /\ pwop' = [pwop EXCEPT !.pc = "login_page"]
       ELSE pw' = Pw_close(pw) /\ pwop' = PwDone(LoginError)
    /\ UNCHANGED <<pwOpsLeft, notPw>>

StillOnSignIn == Raise(EHRUnavailableError(<<"H","e","a","l","t","h","i","e"," ","l","o","g","i","n"," ","f","a","i","l","e","d"," ","-"," ","s","t","i","l","l"," ","o","n"," ","s","i","g","n","-","i","n"," ","p","a","g","e">>, 1))

\* mutant: the page of the failed login is kept
login_failed_keeps_page(p) == [p EXCEPT !.page = "sign_in"]

\* if "sign_in" in self._page.url: self._page = None
login_failed(p) == [p EXCEPT !.page = "none"]

\* new_page, goto sign_in, fill, click, wait, and the test of the URL
PwLoginSubmit(r) ==
    /\ pwop.pc = "login_page"
    /\ LET op == [pwop EXCEPT !.landed = r] IN
       CASE r = "app" -> /\ pw' = [pw EXCEPT !.page = "app"]
                         /\ pwop' = [op EXCEPT !.pc = PwBody(pwop.op)]
         [] r = "sign_in" ->
                /\ pw' = login_failed(pw)
                /\ pwop' = [PwDone(StillOnSignIn) EXCEPT !.landed = r]
         [] r = "exc" -> /\ pw' = Pw_close(pw)
                         /\ pwop' = [PwDone(LoginError) EXCEPT !.landed = r]
    /\ UNCHANGED <<pwOpsLeft, notPw>>

\* goto the patient's page, wait for the list, scan it, click the match
PwNavigate(items, ok) ==
    /\ pwop.pc = "navigate"
    /\ LET m == FirstMatch(items, date_to_short(pwop.target.date),
                           time_to_12h(pwop.target.time))
       IN  IF ~ok \/ m = 0
           THEN pwop' = CancelFails([pwop EXCEPT !.items = IF ok THEN items ELSE <<>>])
           ELSE pwop' = [pwop EXCEPT !.pc = "status", !.items = items, !.matched = m]
    /\ UNCHANGED <<pw, pwOpsLeft, notPw>>

\* open the status dropdown, choose Cancelled, click the save button
PwSetStatus(ok) ==
    /\ pwop.pc = "status"
    /\ IF ok THEN pwop' = [pwop EXCEPT !.pc = "poll"] ELSE pwop' = CancelFails(pwop)
    /\ UNCHANGED <<pw, pwOpsLeft, notPw>>

\* mutant: a modal still open after the last poll fails the cancel, as the
\* form does in create_appointment
PollExhaustedRaises(op) ==
    [op EXCEPT !.pc = "done",
               !.out = Raise(AppointmentCancellationError(
                           <<"A","p","p","o","i","n","t","m","e","n","t"," ","d","e","t","a","i","l"," ","m","o","d","a","l"," ","d","i","d"," ","n","o","t"," ","c","l","o","s","e">>, "None", 1))]

\* the else branch of the poll loop and what follows it
PollExhausted(op) ==
    [op EXCEPT !.pc = "done", !.warned = TRUE, !.out = Return(Cancelled(op.target))]

\* one turn of the poll loop: wait, then modal.count() == 0
PwPoll(r) ==
    /\ pwop.pc = "poll"
    /\ LET op == [pwop EXCEPT !.polls = @ + 1, !.open = (r = "open")]
       IN  CASE r = "exc" -> pwop' = CancelFails(op)
             [] r = "closed" ->
                    pwop' = [op EXCEPT !.pc = "done", !.out = Return(Cancelled(op.target))]
             [] r = "open" ->
                    IF op.polls = MAX_POLL_ATTEMPTS THEN pwop' = PollExhausted(op)
                    ELSE pwop' = op
    /\ UNCHANGED <<pw, pwOpsLeft, notPw>>

\* the caller has taken the result
PwFinish ==
    /\ pwop.pc = "done"
    /\ pwop' = IdlePw
    /\ UNCHANGED <<pw, pwOpsLeft, notPw>>

\* close() is called between operations
PwClose ==
    /\ pwop.pc = "idle" /\ pwOpsLeft > 0
    /\ pwOpsLeft' = pwOpsLeft - 1
    /\ pw' = Pw_close(pw)
    /\ pwop' = [IdlePw EXCEPT !.op = "close", !.before = pw,
                              !.afterClose = (pwop.op = "close")]
    /\ UNCHANGED notPw

\* the profile links a search shows: the href and the text of the row
RowMarc == [href |-> <<"/","p","a","t","i","e","n","t","s","/","1","0","1">>, text |-> <<"V","i","e","w"," ","P","r","o","f","i","l","e","\n","M","a","r","c"," ","C","a","m","p","s"," ","(","5","/","1","8","/","2","0","0","3",")","\n","A","c","t","i","v","e">>]
RowJane == [href |-> <<"/","u","s","e","r","s","/","1","0","2">>, text |-> <<"J","a","n","e"," ","D","o","e"," ","(","0","1","/","0","5","/","1","9","9","0",")">>]
RowNoDay == [href |-> <<"/","p","a","t","i","e","n","t","s","/","1","0","3">>, text |-> <<"M","a","r","c"," ","B","a","d"," ","(","2","/","3","0","/","2","0","0","3",")">>]
RowOneWord == [href |-> <<"/","p","a","t","i","e","n","t","s","/","1","0","4">>, text |-> <<"M","a","d","o","n","n","a"," ","(","5","/","1","8","/","2","0","0","3",")">>]
RowNoDate == [href |-> <<"/","p","a","t","i","e","n","t","s","/","1","0","5">>, text |-> <<"M","a","r","c"," ","C","a","m","p","s">>]
RowNoId == [href |-> <<"/","s","e","t","t","i","n","g","s">>, text |-> <<"M","a","r","c"," ","C","a","m","p","s"," ","(","5","/","1","8","/","2","0","0","3",")">>]

RowLists ==
    { <<>>, <<RowMarc, RowJane>>, <<RowJane, RowNoDay, RowMarc>>,
      <<RowOneWord, RowMarc, RowNoDate>>, <<RowNoId, RowJane>> }

\* the except clauses of search_patients around the scan of the rows
SearchFailed(parsed) ==
    IF parsed.kind = "raise" /\ parsed.exc.type # "EHRUnavailableError"
    THEN Raise(EHRUnavailableError(<<"P","a","t","i","e","n","t"," ","s","e","a","r","c","h"," ","f","a","i","l","e","d",":"," ">> \o parsed.exc.msg, 1))
    ELSE parsed

\* _parse_patient_results on each page a search can show, inside the try
\* of search_patients: computed once per page
ScanOf == [rows \in RowLists |-> SearchFailed(parse_patient_results(rows))]

\* search_patients: goto, fill the search box, parse the rows
PwSearchBody(ok, rows) ==
    /\ pwop.pc = "search_body"
    /\ LET op == [pwop EXCEPT !.rows = IF ok THEN rows ELSE <<>>, !.scanned = ok]
           out == IF ok THEN ScanOf[rows]
                  ELSE Raise(EHRUnavailableError(<<"P","a","t","i","e","n","t"," ","s","e","a","r","c","h"," ","f","a","i","l","e","d",":"," ","T","i","m","e","o","u","t">>, 1))
       IN  pwop' = [op EXCEPT !.pc = "done", !.out = out]
    /\ UNCHANGED <<pw, pwOpsLeft, notPw>>

\* create_appointment: the form and its submit, up to the poll loop
PwCreateBody(r) ==
    /\ pwop.pc = "create_body"
    /\ LET t == pwop.target IN
       pwop' = CASE r = "ok" -> [pwop EXCEPT !.pc = "create_poll"]
                 [] r = "exc" ->
                      PwDone(Raise(AppointmentCreationError(<<"T","i","m","e","o","u","t">>, t.patient_id, 1)))
    /\ UNCHANGED <<pw, pwOpsLeft, notPw>>

WarningText == <<"S","l","o","t"," ","t","a","k","e","n">>

FormDidNotClose == <<"A","p","p","o","i","n","t","m","e","n","t"," ","f","o","r","m"," ","d","i","d"," ","n","o","t"," ","c","l","o","s","e"," ","a","f","t","e","r"," ","s","u","b","m","i","t">>

\* create_appointment leaves its try block: with the Appointment, or with
\* AppointmentCreationError(reason, patient_id)
CreateEnds(op, out) == [op EXCEPT !.pc = "done", !.out = out]

Created(t) == Appointment("a1", t.patient_id, t.date, t.time, "scheduled")

\* mutant: a poll looks for a warning before it looks whether the form is gone
create_poll_warning_first(op, sight) ==
    LET t == op.target
        o == [op EXCEPT !.polls = @ + 1, !.sight = sight, !.open = ~sight.closed]
    IN  IF sight.exc # "none"
        THEN CreateEnds(o, Raise(AppointmentCreationError(<<"T","i","m","e","o","u","t">>, t.patient_id, 1)))
        ELSE IF sight.warning
        THEN CreateEnds(o, Raise(AppointmentCreationError(WarningText, t.patient_id, 1)))
        ELSE IF sight.closed THEN CreateEnds(o, Return(Created(t)))
        ELSE IF o.polls = MAX_POLL_ATTEMPTS
        THEN CreateEnds(o, Raise(AppointmentCreationError(FormDidNotClose, t.patient_id, 1)))
        ELSE o

\* one turn of the poll loop of create_appointment, the else branch of the
\* loop after the last turn, and what follows the loop; an exception of a
\* page call is caught by `except Exception` and raised again as
\* AppointmentCreationError(reason=str(exc))
create_poll(op, sight) ==
    LET t == op.target
        o == [op EXCEPT !.polls = @ + 1, !.sight = sight, !.open = ~sight.closed]
    IN  IF sight.exc = "count"
        THEN CreateEnds(o, Raise(AppointmentCreationError(<<"T","i","m","e","o","u","t">>, t.patient_id, 1)))
        ELSE IF sight.closed THEN CreateEnds(o, Return(Created(t)))
        ELSE IF sight.exc = "warning"
        THEN CreateEnds(o, Raise(AppointmentCreationError(<<"T","i","m","e","o","u","t">>, t.patient_id, 1)))
        ELSE IF sight.warning
        THEN CreateEnds(o, Raise(AppointmentCreationError(WarningText, t.patient_id, 1)))
        ELSE IF o.polls = MAX_POLL_ATTEMPTS
        THEN CreateEnds(o, Raise(AppointmentCreationError(FormDidNotClose, t.patient_id, 1)))
        ELSE o

\* the form was submitted: wait_for_timeout, modal.count(), warning.count()
PwCreatePoll(sight) ==
    /\ pwop.pc = "create_poll"
    /\ pwop' = create_poll(pwop, sight)
    /\ UNCHANGED <<pw, pwOpsLeft, notPw>>

\* health_check: goto the base URL; response is not None and response.ok
PwHealthGoto(r) ==
    /\ pwop.pc = "health_goto"
    /\ LET op == [pwop EXCEPT !.probe = r] IN
       pwop' = IF r = "exc"
               THEN [op EXCEPT !.pc = "done", !.out = Return(FALSE)]
               ELSE [op EXCEPT !.pc = "done", !.out = Return(r = "ok")]
    /\ UNCHANGED <<pw, pwOpsLeft, notPw>>

\* the remote session expires: the page is redirected to the sign-in page
PwExpire ==
    /\ pwop.pc = "idle" /\ pw.page = "app"
    /\ pw' = [pw EXCEPT !.page = "sign_in"]
    /\ UNCHANGED <<pwop, pwOpsLeft, notPw>>

(***************************************************************************)
(* The helper functions, called on their own: datetime_helpers.time_to_12h *)
(* on every dt.time of whole minutes, parsing_helpers.parse_name_dob on    *)
(* texts of the kinds a row of the patient list can have.                  *)
(***************************************************************************)
\* dt.time.hour and dt.time.minute
Hours == 0..23
Minutes == 0..59

Texts ==
    { <<"M","a","r","c"," ","C","a","m","p","s"," ","(","5","/","1","8","/","2","0","0","3",")">>, <<" "," ","M","a","r","c"," ","C","a","m","p","s"," "," "," ","(","5","/","1","8","/","2","0","0","3",")"," "," ">>,
      <<"M","a","r","y"," ","J","a","n","e"," ","W","a","t","s","o","n"," ","(","0","1","/","0","5","/","1","9","9","0",")">>, <<"A","n","n","e","-","M","a","r","i","e"," ","R","o","c","a","(","1","2","/","3","1","/","1","9","9","9",")">>,
      <<"V","i","e","w"," ","P","r","o","f","i","l","e","\n","M","a","r","c"," ","C","a","m","p","s"," ","(","5","/","1","8","/","2","0","0","3",")","\n","A","c","t","i","v","e">>,
      <<"M","a","r","c"," ","C","a","m","p","s">>, <<"M","a","r","c"," ","C","a","m","p","s"," ","5","/","1","8","/","2","0","0","3">>, <<"M","a","r","c"," ","C","a","m","p","s"," ","(","5","/","1","8","/","0","3",")">>,
      <<"M","a","d","o","n","n","a"," ","(","5","/","1","8","/","2","0","0","3",")">>, <<>>, <<"1","2","3","4","5"," ","(","1","/","1","/","2","0","0","0",")">>,
      <<"1","M","a","r","c"," ","C","a","m","p","s"," ","(","5","/","1","8","/","2","0","0","3",")">>, <<"M","a","r","c"," ","C","a","m","p","s"," ","(","2","/","3","0","/","2","0","0","3",")">> }

\* no helper called
NoHelperCall ==
    [fn |-> "none", pc |-> "idle", time |-> <<>>, text |-> <<>>,
     result |-> <<>>, out |-> NoOutcome]

\* a helper about to be called on an argument
HelperCalls ==
    { [NoHelperCall EXCEPT !.fn = "time_to_12h", !.pc = "called",
                           !.time = <<h, m, 0, 0>>] : h \in Hours, m \in Minutes }
    \cup { [NoHelperCall EXCEPT !.fn = "parse_name_dob", !.pc = "called",
                                !.text = t] : t \in Texts }

\* time_to_12h(time) returns
FmtTimeTo12h ==
    /\ fmt.pc = "called" /\ fmt.fn = "time_to_12h"
    /\ fmt' = [fmt EXCEPT !.pc = "returned", !.result = time_to_12h(fmt.time)]
    /\ UNCHANGED notFmt

\* parse_name_dob(text) returns or raises
FmtParseNameDob ==
    /\ fmt.pc = "called" /\ fmt.fn = "parse_name_dob"
    /\ fmt' = [fmt EXCEPT !.pc = "returned", !.out = parse_name_dob(fmt.text)]
    /\ UNCHANGED notFmt


(***************************************************************************)
(* prosper.agent.fillers.ToolCallFillerProcessor.  `filler` holds          *)
(*   phrases   _phrases: "FILLER_PHRASES" or "custom", a dict given        *)
(*   default   _default                                                    *)
(*   pending   _pending: per tool_call_id the task stored, 0 for none      *)
(*   tasks     the _delayed_filler tasks created, each with its arguments  *)
(*             and its state: "sleeping" in asyncio.sleep, "cancelling"    *)
(*             once cancel() was called on it, "done", "cancelled"; and,   *)
(*             as history, the state it was in when the first result frame *)
(*             of its call was processed                                   *)
(*   received  the frames process_frame was called with, with direction    *)
(*   pushed    the frames push_frame was called with, with direction       *)
(*   left      frames still to arrive                                      *)
(* A frame is [n, kind, function_name, tool_call_id, text]: n tells the    *)
(* frame objects apart, 0 for a TTSSpeakFrame the processor has built.     *)
(***************************************************************************)
ToolCall == {"find_patient", "create_appointment", "cancel_appointment"}

FILLER_PHRASES ==
    [t \in ToolCall |->
        CASE t = "find_patient" -> "One moment, let me look up your record."
          [] t = "create_appointment" -> "Let me book that for you, just a moment."
          [] t = "cancel_appointment" -> "One moment while I cancel that for you."]

DEFAULT_FILLER == "One moment please."

\* a phrases argument that has no entry for create_appointment
CustomPhrases == [t \in {"find_patient", "cancel_appointment"} |-> "Looking into it."]

ToolCallIds == {"call-1", "call-2"}

FunctionNames == {"find_patient", "create_appointment", "unknown_tool"}

Directions == {"DOWNSTREAM", "UPSTREAM"}

Frame(n, kind, function_name, tool_call_id, text) ==
    [n |-> n, kind |-> kind, function_name |-> function_name,
     tool_call_id |-> tool_call_id, text |-> text]

\* push_frame(frame, direction) as the next processor sees it
Pushed(frame, direction) == [frame |-> frame, direction |-> direction]

\* __init__(phrases=phrases): phrases or FILLER_PHRASES
NewFiller(phrases) ==
    [phrases |-> IF phrases = "None" THEN "FILLER_PHRASES" ELSE phrases,
     default |-> DEFAULT_FILLER,
     pending |-> [id \in ToolCallIds |-> 0],
     tasks |-> <<>>, received |-> <<>>, pushed |-> <<>>, left |-> MaxFrames]

\* the dict self._phrases
PhrasesOf(f) == IF f.phrases = "custom" THEN CustomPhrases ELSE FILLER_PHRASES

\* mutant: every tool gets the default phrase
filler_text_default(f, function_name) == f.default

\* self._phrases[ToolCall(frame.function_name)], self._default on
\* ValueError (no such ToolCall) and on KeyError (no phrase for it)
filler_text(f, function_name) ==
    IF function_name \in ToolCall /\ function_name \in DOMAIN PhrasesOf(f)
    THEN PhrasesOf(f)[function_name]
    ELSE f.default

\* mutant: the in-progress frame is pushed downstream, as the filler is
process_in_progress_downstream(f, frame, direction) ==
    [f EXCEPT !.pushed = Append(@, Pushed(frame, "DOWNSTREAM")),
              !.tasks = Append(@, [id |-> frame.tool_call_id,
                                   text |-> filler_text(f, frame.function_name),
                                   state |-> "sleeping", resultAt |-> "none"]),
              !.pending[frame.tool_call_id] = Len(f.tasks) + 1]

\* process_frame on a FunctionCallInProgressFrame: push it, create the task
\* of _delayed_filler(tool_call_id, text), store the task
process_in_progress(f, frame, direction) ==
    [f EXCEPT !.pushed = Append(@, Pushed(frame, direction)),
              !.tasks = Append(@, [id |-> frame.tool_call_id,
                                   text |-> filler_text(f, frame.function_name),
                                   state |-> "sleeping", resultAt |-> "none"]),
              !.pending[frame.tool_call_id] = Len(f.tasks) + 1]

\* the tasks with, for each task of the call, the state the first result
\* frame of the call found it in
Noted(f, id) ==
    [t \in DOMAIN f.tasks |->
        IF f.tasks[t].id = id /\ f.tasks[t].resultAt = "none"
        THEN [f.tasks[t] EXCEPT !.resultAt = f.tasks[t].state]
        ELSE f.tasks[t]]

\* mutant: the pending task is taken out of the dict and left to run
process_result_no_cancel(f, frame, direction) ==
    [f EXCEPT !.pending[frame.tool_call_id] = 0,
              !.tasks = Noted(f, frame.tool_call_id),
              !.pushed = Append(@, Pushed(frame, direction))]

\* process_frame on a FunctionCallResultFrame: pop the task of the call,
\* cancel it unless it is done, push the frame
process_result(f, frame, direction) ==
    LET t == f.pending[frame.tool_call_id]
        noted == Noted(f, frame.tool_call_id)
    IN  [f EXCEPT !.pending[frame.tool_call_id] = 0,
                  !.tasks = IF t # 0 /\ f.tasks[t].state \notin {"done", "cancelled"}
                            THEN [noted EXCEPT ![t].state = "cancelling"]
                            ELSE noted,
                  !.pushed = Append(@, Pushed(frame, direction))]

\* process_frame on any other frame
process_other(f, frame, direction) ==
    [f EXCEPT !.pushed = Append(@, Pushed(frame, direction))]

\* _delayed_filler after its sleep: push the TTSSpeakFrame downstream, then
\* the finally clause
delayed_filler(f, t) ==
    [f EXCEPT !.pushed = Append(@, Pushed(Frame(0, "TTSSpeakFrame", "", f.tasks[t].id,
                                                f.tasks[t].text), "DOWNSTREAM")),
              !.pending[f.tasks[t].id] = 0,
              !.tasks[t].state = "done"]

\* mutant: the cancelled task speaks its filler all the same
delayed_filler_cancelled_speaks(f, t) ==
    [f EXCEPT !.pushed = Append(@, Pushed(Frame(0, "TTSSpeakFrame", "", f.tasks[t].id,
                                                f.tasks[t].text), "DOWNSTREAM")),
              !.pending[f.tasks[t].id] = 0,
              !.tasks[t].state = "cancelled"]

\* _delayed_filler when CancelledError reaches it: pass, then the finally clause
delayed_filler_cancelled(f, t) ==
    [f EXCEPT !.pending[f.tasks[t].id] = 0,
              !.tasks[t].state = "cancelled"]

\* process_frame is called with a frame: super().process_frame, then the
\* branch of its type
Receive(frame, direction, after) ==
    /\ filler.left > 0
    /\ filler' = [after EXCEPT !.received = Append(@, Pushed(frame, direction)),
                               !.left = @ - 1]
    /\ UNCHANGED notFiller

\* a FunctionCallInProgressFrame arrives; the LLM service gives every
\* function call its own tool_call_id
ProcessInProgress(function_name, id, direction) ==
    /\ \A t \in DOMAIN filler.tasks : filler.tasks[t].id # id
    /\ LET frame == Frame(Len(filler.received) + 1, "FunctionCallInProgressFrame",
                          function_name, id, "")
       IN  Receive(frame, direction, process_in_progress(filler, frame, direction))

\* a FunctionCallResultFrame arrives
ProcessResult(id, direction) ==
    LET frame == Frame(Len(filler.received) + 1, "FunctionCallResultFrame",
                       "create_appointment", id, "")
    IN  Receive(frame, direction, process_result(filler, frame, direction))

\* a frame of another type arrives
ProcessOther(direction) ==
    LET frame == Frame(Len(filler.received) + 1, "TTSSpeakFrame", "", "", "hello")
    IN  Receive(frame, direction, process_other(filler, frame, direction))

\* asyncio.sleep(self._delay) returns in task t
FillerSpeaks(t) ==
    /\ filler.tasks[t].state = "sleeping"
    /\ filler' = delayed_filler(filler, t)
    /\ UNCHANGED notFiller

\* the cancelled task t runs
FillerCancelled(t) ==
    /\ filler.tasks[t].state = "cancelling"
    /\ filler' = delayed_filler_cancelled(filler, t)
    /\ UNCHANGED notFiller

(***************************************************************************)
(* Specifications: each runs one component and leaves the others as built. *)
(***************************************************************************)
\* GraphQLHealthieClient.__init__: the token given or None, nothing cached
GqlInit ==
    /\ credentials \in BOOLEAN
    /\ token \in {0, 1}
    /\ appointment_type = NoAppointmentType
    /\ issued = 1
    /\ calls = [c \in 1..NumCalls |-> IdleCall]
    /\ concurrency = 1
    /\ opsLeft = MaxOps /\ wire = NoWire
    /\ client = NewClient("fake") /\ last = NoCall /\ svcOpsLeft = 0
    /\ inv = NoInvocation /\ toolOpsLeft = 0
    /\ pw = NewPw(TRUE) /\ pwop = IdlePw /\ pwOpsLeft = 0
    /\ fmt = NoHelperCall /\ filler = NewFiller("None")

GqlNext ==
    \/ \E c \in Calls, op \in Ops : StartOp(c, op)
    \/ \E c \in Calls, r \in SignInResponses : SignInResponse(c, r)
    \/ \E c \in AwaitingData, r \in DataResponses : DataResponse(c, r)
    \/ \E c \in Calls : Finish(c)

SpecGql == GqlInit /\ [][GqlNext]_vars

\* the call slots of a client that two coroutines use at once
Coroutines == 1..(NumCalls + 1)

\* GraphQLHealthieClient.__init__, and from then on the signIn requests and
\* the rejections are counted
GqlSeriesInit ==
    /\ credentials \in BOOLEAN
    /\ token \in {0, 1}
    /\ appointment_type = NoAppointmentType
    /\ issued = 1
    /\ calls = [c \in 1..NumCalls |-> IdleCall]
    /\ concurrency = 1
    /\ opsLeft = MaxOps /\ wire = InitialWire(token)
    /\ client = NewClient("fake") /\ last = NoCall /\ svcOpsLeft = 0
    /\ inv = NoInvocation /\ toolOpsLeft = 0
    /\ pw = NewPw(TRUE) /\ pwop = IdlePw /\ pwOpsLeft = 0
    /\ fmt = NoHelperCall /\ filler = NewFiller("None")

\* the answers of a series: a rejection by status or by message, another
\* failure, a plain success
SeriesAnswers ==
    {r \in DataResponses :
        \/ r.kind = "http" /\ r.status \in {401, 500}
        \/ r.kind = "errors" /\ r.errors = <<MsgExpired>>
        \/ /\ r.kind = "ok" /\ r.messages = <<>> /\ r.users = <<>> /\ r.contact_types = <<>>
           /\ r.appointment \in {Null, [t |-> "obj", id |-> Str(<<"1","0","0">>),
                                          date |-> Str(StampAfternoon)]}}

GqlSeriesNext ==
    \/ \E c \in Calls, op \in Ops : StartOp(c, op)
    \/ \E c \in Calls, r \in SignInResponses : SignInResponse(c, r)
    \/ \E c \in AwaitingData, r \in SeriesAnswers : DataResponse(c, r)
    \/ \E c \in Calls : Finish(c)

SpecGqlSeries == GqlSeriesInit /\ [][GqlSeriesNext]_vars

\* one GraphQLHealthieClient, built with a token, shared by two coroutines
GqlConcInit ==
    /\ credentials = TRUE
    /\ token = 1
    /\ appointment_type = NoAppointmentType
    /\ issued = 1
    /\ calls = [c \in Coroutines |-> IdleCall]
    /\ concurrency = 2
    /\ opsLeft = MaxOps /\ wire = NoWire
    /\ client = NewClient("fake") /\ last = NoCall /\ svcOpsLeft = 0
    /\ inv = NoInvocation /\ toolOpsLeft = 0
    /\ pw = NewPw(TRUE) /\ pwop = IdlePw /\ pwOpsLeft = 0
    /\ fmt = NoHelperCall /\ filler = NewFiller("None")

\* the operations the two coroutines call: one of a single request and the
\* one of two
ConcurrentOps == {"search", "create"}

\* the answers they get: a rejection or a plain success
ConcurrentAnswers ==
    {r \in DataResponses :
        \/ r.kind = "http" /\ r.status = 401
        \/ /\ r.kind = "ok" /\ r.messages = <<>> /\ r.users = <<>> /\ r.contact_types = <<>>
           /\ r.appointment \in {Null, [t |-> "obj", id |-> Str(<<"1","0","0">>),
                                          date |-> Str(StampAfternoon)]}}

ConcurrentSignIns == {r \in SignInResponses : r.kind \in {"token", "exc"}}

GqlConcNext ==
    \/ \E c \in Calls, op \in ConcurrentOps : StartOp(c, op)
    \/ \E c \in Calls, r \in ConcurrentSignIns : SignInResponse(c, r)
    \/ \E c \in AwaitingData, r \in ConcurrentAnswers : DataResponse(c, r)
    \/ \E c \in Calls : Finish(c)

\* every request is answered or fails within the timeout of the httpx
\* client, and the event loop resumes the coroutine that awaits it
GqlAnswered ==
    \A c \in Coroutines :
        /\ WF_vars(\E r \in ConcurrentSignIns : SignInResponse(c, r))
        /\ WF_vars(\E r \in ConcurrentAnswers : DataResponse(c, r))

SpecGqlConc == GqlConcInit /\ [][GqlConcNext]_vars /\ GqlAnswered

\* build_ehr_service, or EHRService(client) in the tests
SvcInit ==
    /\ client \in {NewClient(k) : k \in ClientKinds}
    /\ last = NoCall
    /\ svcOpsLeft = MaxSvcOps
    /\ credentials = TRUE /\ token = 0 /\ appointment_type = NoAppointmentType /\ issued = 1
    /\ calls = [c \in 1..NumCalls |-> IdleCall] /\ concurrency = 1 /\ opsLeft = 0 /\ wire = NoWire
    /\ inv = NoInvocation /\ toolOpsLeft = 0
    /\ pw = NewPw(TRUE) /\ pwop = IdlePw /\ pwOpsLeft = 0
    /\ fmt = NoHelperCall /\ filler = NewFiller("None")

SvcNext ==
    \/ \E l \in PatientLists : FakeLoad(l)
    \/ \E f \in {"search_error", "create_error", "cancel_error"}, e \in InjectedErrors :
           FakeSetError(f, e)
    \/ \E n \in Names, d \in Dobs, r \in RemoteFor(RemoteSearch(client.kind)) :
           SvcFindPatient(n, d, r)
    \/ \E q \in Requests, r \in RemoteFor(RemoteCreate(client.kind)) :
           SvcCreateAppointment(q, r)
    \/ \E a \in AppointmentIds, r \in RemoteFor(RemoteCancel(client.kind)) :
           SvcCancelAppointment(a, r)
    \/ \E h \in BOOLEAN : SvcHealthCheck(h)
    \/ \E f \in BOOLEAN : SvcClose(f)

SpecSvc == SvcInit /\ [][SvcNext]_vars

\* ToolHandlers(ehr_service) over a service the factory or a test built
ToolInit ==
    /\ client \in {NewClient(k) : k \in {"fake", "graphql", "playwright", "service"}}
    /\ last = NoCall
    /\ svcOpsLeft = 0
    /\ inv = NoInvocation
    /\ toolOpsLeft = MaxToolOps
    /\ credentials = TRUE /\ token = 0 /\ appointment_type = NoAppointmentType /\ issued = 1
    /\ calls = [c \in 1..NumCalls |-> IdleCall] /\ concurrency = 1 /\ opsLeft = 0 /\ wire = NoWire
    /\ pw = NewPw(TRUE) /\ pwop = IdlePw /\ pwOpsLeft = 0
    /\ fmt = NoHelperCall /\ filler = NewFiller("None")

ToolNext ==
    \/ \E l \in PatientLists : FakeLoad(l)
    \/ \E f \in {"search_error", "create_error", "cancel_error"}, e \in InjectedErrors :
           FakeSetError(f, e)
    \/ \E a \in [name : NameValues, date_of_birth : DobValues],
          r \in RemoteFor(RemoteSearch(client.kind)) : ToolFindPatient(a, r)
    \/ \E a \in [patient_id : PatientIdValues, date : DateValues, time : TimeValues],
          r \in RemoteFor(RemoteCreate(client.kind)), n \in NowValues :
           ToolCreateAppointment(a, r, n)
    \/ \E a \in [appointment_id : AppointmentIdValues],
          r \in RemoteFor(RemoteCancel(client.kind)) : ToolCancelAppointment(a, r)

SpecTools == ToolInit /\ [][ToolNext]_vars

\* PlaywrightHealthieClient.__init__: no driver, no browser, no page
PwInit ==
    /\ pw \in {NewPw(c) : c \in BOOLEAN}
    /\ pwop = IdlePw
    /\ pwOpsLeft = MaxPwOps
    /\ fmt = NoHelperCall /\ filler = NewFiller("None")
    /\ credentials = TRUE /\ token = 0 /\ appointment_type = NoAppointmentType /\ issued = 1
    /\ calls = [c \in 1..NumCalls |-> IdleCall] /\ concurrency = 1 /\ opsLeft = 0 /\ wire = NoWire
    /\ client = NewClient("fake") /\ last = NoCall /\ svcOpsLeft = 0
    /\ inv = NoInvocation /\ toolOpsLeft = 0

PwNext ==
    \/ \E t \in CancelTargets, u \in BOOLEAN : PwCancelStart(t, u)
    \/ \E u \in BOOLEAN : PwSearchStart(u)
    \/ \E t \in CancelTargets, u \in BOOLEAN : PwCreateStart(t, u)
    \/ \E u \in BOOLEAN : PwHealthStart(u)
    \/ \E ok \in BOOLEAN, rows \in RowLists : PwSearchBody(ok, rows)
    \/ \E r \in {"ok", "exc"} : PwCreateBody(r)
    \/ \E sight \in PollSights : PwCreatePoll(sight)
    \/ \E r \in {"ok", "not_ok", "none", "exc"} : PwHealthGoto(r)
    \/ \E ok \in BOOLEAN : PwLoginStart(ok)
    \/ \E ok \in BOOLEAN : PwLoginLaunch(ok)
    \/ \E r \in {"app", "sign_in", "exc"} : PwLoginSubmit(r)
    \/ \E items \in ItemLists, ok \in BOOLEAN : PwNavigate(items, ok)
    \/ \E ok \in BOOLEAN : PwSetStatus(ok)
    \/ \E r \in {"closed", "open", "exc"} : PwPoll(r)
    \/ PwFinish
    \/ PwClose
    \/ PwExpire

SpecPw == PwInit /\ [][PwNext]_vars

(***************************************************************************)
(* Properties of the tool handlers.                                        *)
(***************************************************************************)
PastMessage == <<"A","p","p","o","i","n","t","m","e","n","t"," ","t","i","m","e"," ","i","s"," ","i","n"," ","t","h","e"," ","p","a","s","t","."," ","P","l","e","a","s","e"," ","p","r","o","v","i","d","e"," ","a"," ","f","u","t","u","r","e"," ","d","a","t","e"," ","a","n","d"," ","t","i","m","e",".">>

\* a string argument that is there and not empty
Present(value) == value.t = "str" /\ value.s # <<>>

\* the call is create_appointment with a patient id, a date and a time that parse
WellFormedCreate ==
    /\ inv.handler = "create_appointment"
    /\ Present(inv.arguments.patient_id)
    /\ Present(inv.arguments.date) /\ date_fromisoformat(inv.arguments.date.s) # <<>>
    /\ Present(inv.arguments.time) /\ time_fromisoformat(inv.arguments.time.s) # <<>>

\* the requested wall-clock instant of a well-formed create
Requested ==
    date_fromisoformat(inv.arguments.date.s) \o time_fromisoformat(inv.arguments.time.s)

\* C7: a create_appointment whose date and time, read in the clinic timezone,
\* are strictly before the current time there is answered with error=true,
\* success=false and the past-time message, and neither the service nor a
\* transport is called; one at or after the current time passes this check
\* and reaches the service.
C7_PastTimeRejected ==
    WellFormedCreate =>
        IF Before(Requested, inv.now)
        THEN /\ inv.delivered = << [success |-> FALSE, error |-> TRUE,
                                    message |-> PastMessage] >>
             /\ last = NoCall
             /\ ~inv.escaped
        ELSE /\ Len(inv.delivered) = 1
             /\ inv.delivered[1].message # PastMessage
             /\ last.op = "create_appointment"

\* 14:00 is asked for one microsecond after 14:00 of the same day
C7_Witness ==
    /\ WellFormedCreate
    /\ Requested = <<2026, 3, 15, 14, 0, 0, 0>>
    /\ inv.now = <<2026, 3, 15, 14, 0, 0, 1>>
    /\ inv.delivered[1].error
    /\ last = NoCall

\* a date or time argument that is there but is no string or does not parse
MalformedDate(value) ==
    /\ value # Missing /\ value # Null /\ value # Str(<<>>)
    /\ value.t = "str" => date_fromisoformat(value.s) = <<>>

MalformedTime(value) ==
    /\ value # Missing /\ value # Null /\ value # Str(<<>>)
    /\ value.t = "str" => time_fromisoformat(value.s) = <<>>

Absent(value) == value \in {Missing, Null, Str(<<>>)}

Quoted(field_name) == <<"'">> \o field_name \o <<"'">>

\* the malformed date and time arguments of the call, by field name
MalformedFields ==
    CASE inv.handler = "find_patient" ->
             IF MalformedDate(inv.arguments.date_of_birth) THEN {<<"d","a","t","e","_","o","f","_","b","i","r","t","h">>} ELSE {}
      [] inv.handler = "create_appointment" ->
             (IF MalformedDate(inv.arguments.date) THEN {<<"d","a","t","e">>} ELSE {})
             \cup (IF MalformedTime(inv.arguments.time) THEN {<<"t","i","m","e">>} ELSE {})
      [] OTHER -> {}

\* the required arguments of the call that are missing or empty
AbsentFields ==
    CASE inv.handler = "find_patient" ->
             {f \in {"name", "date_of_birth"} : Absent(inv.arguments[f])}
      [] inv.handler = "create_appointment" ->
             {f \in {"patient_id", "date", "time"} : Absent(inv.arguments[f])}
      [] inv.handler = "cancel_appointment" ->
             {f \in {"appointment_id"} : Absent(inv.arguments[f])}
      [] OTHER -> {}

\* the flag a handler's results carry next to error
FlagIsFalse(result) ==
    IF inv.handler = "find_patient"
    THEN "found" \in DOMAIN result /\ ~result.found
    ELSE "success" \in DOMAIN result /\ ~result.success

\* C8: a tool call with a required argument missing, empty or malformed is
\* answered with one result that has error=true and found/success=false, the
\* service is not called, no exception leaves the handler, and when a date
\* or time is malformed the message names such a field.
C8_BadArgumentsRejected ==
    (AbsentFields # {} \/ MalformedFields # {}) =>
        /\ Len(inv.delivered) = 1
        /\ "error" \in DOMAIN inv.delivered[1] /\ inv.delivered[1].error
        /\ FlagIsFalse(inv.delivered[1])
        /\ last = NoCall
        /\ ~inv.escaped
        /\ MalformedFields # {} =>
               \E f \in MalformedFields : Contains(Quoted(f), inv.delivered[1].message)

\* create_appointment for 30 February, everything else in order
C8_Witness ==
    /\ inv.handler = "create_appointment"
    /\ AbsentFields = {}
    /\ MalformedFields = {<<"d","a","t","e">>}
    /\ inv.delivered[1].error
    /\ last = NoCall

(***************************************************************************)
(* Properties of the UI-automation transport.                              *)
(***************************************************************************)
\* cancel_appointment matched an item, saved, and polled its whole budget
\* with the modal still there at every poll
PollBudgetExhausted ==
    /\ pwop.op = "cancel"
    /\ pwop.matched > 0
    /\ pwop.polls = MAX_POLL_ATTEMPTS
    /\ pwop.open

\* C9: when the UI-automation cancel has matched an appointment, saved the
\* status and polled MAX_POLL_ATTEMPTS times without the detail modal
\* closing, it does not raise: it logs a warning and returns an Appointment
\* whose status is cancelled.
C9_PollExhaustionStillCancels ==
    PollBudgetExhausted =>
        /\ pwop.pc = "done"
        /\ pwop.warned
        /\ pwop.out.kind = "return"
        /\ pwop.out.value.status = "cancelled"
        /\ pwop.out.value = Appointment("unknown", pwop.target.patient_id,
                                        pwop.target.date, pwop.target.time, "cancelled")

C9_Witness ==
    /\ PollBudgetExhausted
    /\ pwop.items[pwop.matched] = <<"M","a","r"," ","1","5",","," ","2","0","2","6"," ","2",":","3","0"," ","P","M"," ","F","o","l","l","o","w","-","u","p">>
    /\ pwop.pc = "done"
    /\ pwop.out.kind = "return"

\* no driver, no browser, no page
Cleared(p) == ~p.playwright /\ ~p.browser /\ p.page = "none"

\* C11: close() of the UI-automation transport clears the driver, browser and
\* page references whatever state it is called in and raises nothing; called
\* again it changes nothing; and the public operation that follows a close()
\* logs in afresh (or, without credentials, ends before launching anything).
C11_PlaywrightCloseIdempotent ==
    /\ pwop.op = "close" =>
           /\ Cleared(pw)
           /\ pwop.out = NoOutcome
           /\ pwop.afterClose => pw = pwop.before
    /\ (pwop.op \in PwOps /\ pwop.afterClose) =>
           /\ Cleared(pwop.before)
           /\ IF pw.credentials THEN pwop.logins = 1
              ELSE pwop.pc = "done" /\ Cleared(pw)

\* a login has taken place after a close()
C11_Witness ==
    /\ pwop.op \in PwOps /\ pwop.afterClose
    /\ pwop.logins = 1
    /\ pw.page = "app"

(***************************************************************************)
(* The EHR layer as a whole: one of the two transports, or the service,    *)
(* is the component in use.                                                *)
(***************************************************************************)
EhrInit ==
    \/ /\ credentials \in BOOLEAN /\ token \in {0, 1} /\ appointment_type = NoAppointmentType
       /\ issued = 1 /\ calls = [c \in 1..NumCalls |-> IdleCall] /\ concurrency = 1
       /\ opsLeft = MaxOps /\ wire = NoWire
       /\ client = NewClient("fake") /\ last = NoCall /\ svcOpsLeft = 0
       /\ inv = NoInvocation /\ toolOpsLeft = 0
       /\ pw = NewPw(TRUE) /\ pwop = IdlePw /\ pwOpsLeft = 0
       /\ fmt = NoHelperCall /\ filler = NewFiller("None")
    \/ /\ pw \in {NewPw(c) : c \in BOOLEAN} /\ pwop = IdlePw /\ pwOpsLeft = MaxPwOps
       /\ fmt = NoHelperCall /\ filler = NewFiller("None")
       /\ credentials = TRUE /\ token = 0 /\ appointment_type = NoAppointmentType /\ issued = 1
       /\ calls = [c \in 1..NumCalls |-> IdleCall] /\ concurrency = 1 /\ opsLeft = 0 /\ wire = NoWire
       /\ client = NewClient("fake") /\ last = NoCall /\ svcOpsLeft = 0
       /\ inv = NoInvocation /\ toolOpsLeft = 0
    \/ /\ client \in {NewClient(k) : k \in {"graphql", "playwright", "fake"}}
       /\ last = NoCall /\ svcOpsLeft = MaxSvcOps
       /\ credentials = TRUE /\ token = 0 /\ appointment_type = NoAppointmentType /\ issued = 1
       /\ calls = [c \in 1..NumCalls |-> IdleCall] /\ concurrency = 1 /\ opsLeft = 0 /\ wire = NoWire
       /\ inv = NoInvocation /\ toolOpsLeft = 0
       /\ pw = NewPw(TRUE) /\ pwop = IdlePw /\ pwOpsLeft = 0
       /\ fmt = NoHelperCall /\ filler = NewFiller("None")

EhrNext ==
    \/ \E c \in Calls, op \in Ops : StartOp(c, op)
    \/ \E c \in Calls, r \in SignInResponses : SignInResponse(c, r)
    \/ \E c \in AwaitingData, r \in DataResponses : DataResponse(c, r)
    \/ \E c \in Calls : Finish(c)
    \/ \E t \in CancelTargets, u \in BOOLEAN : PwCancelStart(t, u)
    \/ \E u \in BOOLEAN : PwSearchStart(u)
    \/ \E t \in CancelTargets, u \in BOOLEAN : PwCreateStart(t, u)
    \/ \E u \in BOOLEAN : PwHealthStart(u)
    \/ \E ok \in BOOLEAN : PwLoginStart(ok)
    \/ \E ok \in BOOLEAN : PwLoginLaunch(ok)
    \/ \E r \in {"app", "sign_in", "exc"} : PwLoginSubmit(r)
    \/ \E items \in ItemLists, ok \in BOOLEAN : PwNavigate(items, ok)
    \/ \E ok \in BOOLEAN : PwSetStatus(ok)
    \/ \E r \in {"closed", "open", "exc"} : PwPoll(r)
    \/ \E ok \in BOOLEAN, rows \in RowLists : PwSearchBody(ok, rows)
    \/ \E r \in {"ok", "exc"} : PwCreateBody(r)
    \/ \E sight \in PollSights : PwCreatePoll(sight)
    \/ \E r \in {"ok", "not_ok", "none", "exc"} : PwHealthGoto(r)
    \/ PwFinish
    \/ PwClose
    \/ PwExpire
    \/ \E h \in BOOLEAN : SvcHealthCheck(h)

SpecEhr == EhrInit /\ [][EhrNext]_vars

\* a helper function is called on one argument
FmtInit ==
    /\ fmt \in HelperCalls
    /\ filler = NewFiller("None")
    /\ credentials = TRUE /\ token = 0 /\ appointment_type = NoAppointmentType /\ issued = 1
    /\ calls = [c \in 1..NumCalls |-> IdleCall] /\ concurrency = 1 /\ opsLeft = 0 /\ wire = NoWire
    /\ client = NewClient("fake") /\ last = NoCall /\ svcOpsLeft = 0
    /\ inv = NoInvocation /\ toolOpsLeft = 0
    /\ pw = NewPw(TRUE) /\ pwop = IdlePw /\ pwOpsLeft = 0

FmtNext ==
    \/ FmtTimeTo12h
    \/ FmtParseNameDob

SpecFmt == FmtInit /\ [][FmtNext]_vars

\* ToolCallFillerProcessor(), or with a phrases dict
FillerInit ==
    /\ filler \in {NewFiller(p) : p \in {"None", "custom"}}
    /\ fmt = NoHelperCall
    /\ credentials = TRUE /\ token = 0 /\ appointment_type = NoAppointmentType /\ issued = 1
    /\ calls = [c \in 1..NumCalls |-> IdleCall] /\ concurrency = 1 /\ opsLeft = 0 /\ wire = NoWire
    /\ client = NewClient("fake") /\ last = NoCall /\ svcOpsLeft = 0
    /\ inv = NoInvocation /\ toolOpsLeft = 0
    /\ pw = NewPw(TRUE) /\ pwop = IdlePw /\ pwOpsLeft = 0

FillerNext ==
    \/ \E name \in FunctionNames, id \in ToolCallIds, d \in Directions :
           ProcessInProgress(name, id, d)
    \/ \E id \in ToolCallIds, d \in Directions : ProcessResult(id, d)
    \/ \E d \in Directions : ProcessOther(d)
    \/ \E t \in DOMAIN filler.tasks : FillerSpeaks(t)
    \/ \E t \in DOMAIN filler.tasks : FillerCancelled(t)

SpecFiller == FillerInit /\ [][FillerNext]_vars

\* one ToolCallFillerProcessor below the LLM, for as many frames as let two
\* tool calls run from their start to their result
FillerCallsInit ==
    /\ filler = [NewFiller("None") EXCEPT !.left = MaxFrames + 1]
    /\ fmt = NoHelperCall
    /\ credentials = TRUE /\ token = 0 /\ appointment_type = NoAppointmentType /\ issued = 1
    /\ calls = [c \in 1..NumCalls |-> IdleCall] /\ concurrency = 1 /\ opsLeft = 0 /\ wire = NoWire
    /\ client = NewClient("fake") /\ last = NoCall /\ svcOpsLeft = 0
    /\ inv = NoInvocation /\ toolOpsLeft = 0
    /\ pw = NewPw(TRUE) /\ pwop = IdlePw /\ pwOpsLeft = 0

\* the frames of tool calls, in any order, and the timers of their fillers
FillerCallsNext ==
    \/ \E name \in {"find_patient", "create_appointment"}, id \in ToolCallIds :
           ProcessInProgress(name, id, "DOWNSTREAM")
    \/ \E id \in ToolCallIds : ProcessResult(id, "DOWNSTREAM")
    \/ \E t \in DOMAIN filler.tasks : FillerSpeaks(t)
    \/ \E t \in DOMAIN filler.tasks : FillerCancelled(t)

SpecFillerCalls == FillerCallsInit /\ [][FillerCallsNext]_vars

\* call c is an operation on a structured transport built without a token
\* and without credentials
GqlUnconfigured(c) ==
    calls[c].op # "none" /\ ~credentials /\ ~calls[c].hadToken

\* the operation in progress is on a UI transport built without credentials
PwUnconfigured == pwop.op \in PwOps /\ ~pw.credentials

\* nothing was sent and nothing was launched
NothingSent(c) == Len(calls[c].sent) = 0 /\ calls[c].signins = 0

NothingLaunched == pwop.logins = 0 /\ Cleared(pw)

\* C12 as stated: every operation on a transport without credentials (and
\* without a pre-supplied token) raises EHRUnavailableError before any
\* request is sent or any browser is launched.
C12_NoCredentialsRaises ==
    /\ \A c \in Calls : GqlUnconfigured(c) =>
           /\ NothingSent(c)
           /\ calls[c].pc = "done"
           /\ calls[c].outcome = "raise" /\ calls[c].exc = "EHRUnavailableError"
    /\ PwUnconfigured =>
           /\ NothingLaunched
           /\ pwop.pc = "done"
           /\ pwop.out = NoCredentials

\* C12 amended: search_patients, create_appointment and cancel_appointment
\* on such a transport raise EHRUnavailableError, health_check returns
\* False, and in every case no request is sent and no browser is launched.
C12_NoCredentialsEndsUnsent ==
    /\ \A c \in Calls : GqlUnconfigured(c) =>
           /\ NothingSent(c)
           /\ calls[c].pc = "done"
           /\ IF calls[c].op = "health"
              THEN calls[c].outcome = "return" /\ calls[c].value = 0
              ELSE calls[c].outcome = "raise" /\ calls[c].exc = "EHRUnavailableError"
    /\ PwUnconfigured =>
           /\ NothingLaunched
           /\ pwop.pc = "done"
           /\ IF pwop.op = "health" THEN pwop.out = Return(FALSE)
              ELSE pwop.out = NoCredentials

\* a cancel on a UI transport without credentials has raised
C12_Witness ==
    /\ PwUnconfigured /\ pwop.op = "cancel"
    /\ pwop.out = NoCredentials
    /\ NothingLaunched

\* C13: health_check raises on neither transport nor through the service;
\* it returns True exactly when the probe was answered without an exception
\* and without an error payload (structured transport) or with an OK HTTP
\* response (UI transport), and False otherwise, a failed sign-in or login
\* included.
C13_HealthCheckNeverRaises ==
    /\ \A c \in Calls : calls[c].op = "health" =>
           /\ calls[c].outcome # "raise"
           /\ calls[c].pc = "done" =>
                  /\ calls[c].outcome = "return"
                  /\ calls[c].value \in {0, 1}
                  /\ calls[c].value = 1 <=>
                         (calls[c].last.kind = "ok" /\ calls[c].gql = "return")
    /\ pwop.op = "health" =>
           /\ pwop.out.kind # "raise"
           /\ pwop.pc = "done" =>
                  /\ pwop.out.kind = "return"
                  /\ pwop.out.value \in BOOLEAN
                  /\ pwop.out.value <=> pwop.probe = "ok"
    /\ last.op = "health_check" =>
           /\ last.out.kind = "return"
           /\ last.out.value \in BOOLEAN

\* the sign-in of a health check failed and the check answered False
C13_Witness ==
    \E c \in Calls :
        /\ calls[c].op = "health" /\ calls[c].pc = "done"
        /\ calls[c].signins = 1 /\ Len(calls[c].sent) = 0
        /\ calls[c].outcome = "return" /\ calls[c].value = 0

(***************************************************************************)
(* Properties of the structured transport's results.                       *)
(***************************************************************************)
\* call c is a create (cancel) whose mutation _graphql has answered with data
CreateAnswered(c) ==
    /\ calls[c].op = "create" /\ calls[c].query = "createAppointment"
    /\ calls[c].pc = "done" /\ calls[c].gql = "return"

CancelAnswered(c) ==
    /\ calls[c].op = "cancel" /\ calls[c].query = "updateAppointment"
    /\ calls[c].pc = "done" /\ calls[c].gql = "return"

\* C14: GraphQLHealthieClient.create_appointment raises
\* AppointmentCreationError(reason = the messages joined by "; ", patient_id =
\* the request's) when the create response has messages, and otherwise
\* returns a scheduled Appointment with the request's patient_id, date and
\* time, whatever date the response carries.
C14_CreateResult ==
    \A c \in Calls : CreateAnswered(c) =>
        LET k == calls[c] IN
        IF k.last.messages # <<>>
        THEN /\ k.outcome = "raise"
             /\ k.raised.type = "AppointmentCreationError"
             /\ k.raised.reason = Join(SemiSpace, k.last.messages)
             /\ k.raised.patient_id = k.request.patient_id
        ELSE /\ k.outcome = "return"
             /\ k.value.status = "scheduled"
             /\ k.value.patient_id = k.request.patient_id
             /\ k.value.date = k.request.date
             /\ k.value.time = k.request.time

\* a create for 15 March has succeeded on a response dated 15 September
C14_Witness ==
    \E c \in Calls :
        /\ CreateAnswered(c)
        /\ calls[c].last.messages = <<>>
        /\ calls[c].last.appointment # Null
        /\ calls[c].last.appointment.date = Str(StampAfternoon)
        /\ calls[c].outcome = "return"
        /\ calls[c].value.date = <<2026, 3, 15>>

\* the `date` of an answered cancel is no timestamp: the appointment is null,
\* or its date is missing, null, empty or in another format
DateUnparseable(resp) ==
    \/ resp.appointment = Null
    \/ /\ resp.appointment # Null
       /\ \/ resp.appointment.date \in {Missing, Null}
          \/ /\ resp.appointment.date \notin {Missing, Null}
             /\ strptime(resp.appointment.date.s) = <<>>

\* C15: GraphQLHealthieClient.cancel_appointment raises
\* AppointmentCancellationError carrying the requested id when the response
\* has messages; otherwise it returns a cancelled Appointment, and when the
\* returned date cannot be parsed (empty, malformed, missing or null) the
\* result has no date and no time and nothing is raised.
C15_CancelResult ==
    \A c \in Calls : CancelAnswered(c) =>
        LET k == calls[c] IN
        IF k.last.messages # <<>>
        THEN /\ k.outcome = "raise"
             /\ k.raised.type = "AppointmentCancellationError"
             /\ k.raised.appointment_id = k.request
        ELSE /\ k.outcome = "return"
             /\ k.value.status = "cancelled"
             /\ DateUnparseable(k.last) => (k.value.date = <<>> /\ k.value.time = <<>>)

(***************************************************************************)
(* C16: the appointment type is listed once per client.                    *)
(***************************************************************************)
\* no operation is between its call and its result
Settled == \A c \in Calls : calls[c].pc \in {"idle", "done"}

\* every operation called so far was a create_appointment that returned
OnlySuccessfulCreates == Settled /\ ~wire.other /\ wire.created >= 1

Flag == IF inv.handler = "find_patient" THEN "found" ELSE "success"

\* the handler called the service and the service returned
ServiceReturned == last.op # "none" /\ last.out.kind = "return"

\* find_patient got exactly one patient from the service
SingleMatch ==
    inv.handler = "find_patient" /\ ServiceReturned /\ Len(last.out.value) = 1

C18_NoRawExceptionText ==
    (last.op # "none" /\ last.tout.kind = "raise" /\ last.tout.exc.msg # <<>>) =>
        \A i \in DOMAIN inv.delivered :
            "message" \in DOMAIN inv.delivered[i] =>
                ~Contains(last.tout.exc.msg, inv.delivered[i].message)

\* C19: handle_cancel_appointment with a non-empty appointment_id, over a
\* service whose transport is the fake one with no cancel failure injected,
\* delivers one result with success=true and the requested appointment_id
C19_CancelSucceeds ==
    (/\ inv.handler = "cancel_appointment"
     /\ Truthy(Get(inv.arguments.appointment_id))
     /\ client.kind = "fake" /\ client.cancel_error = NoExc) =>
        /\ Len(inv.delivered) = 1
        /\ inv.delivered[1].success
        /\ inv.delivered[1].appointment_id = inv.arguments.appointment_id.s

\* what a result says of one patient: the id, the full name and the date
\* of birth in ISO form
Describes(entry, p) ==
    /\ entry.patient_id = p.patient_id
    /\ entry.name = p.first_name \o <<" ">> \o p.last_name
    /\ entry.date_of_birth = isoformat(p.date_of_birth)

\* C20: handle_find_patient maps the patients the service returned to its
\* result: none gives found=false; exactly one gives found=true with that
\* patient's patient_id, name and date_of_birth; two or more give
\* found=true, multiple_matches=true and a patients list with one entry per
\* patient in the service's order
C20_FindPatientMapping ==
    (inv.handler = "find_patient" /\ ServiceReturned) =>
        LET patients == last.out.value
            result == inv.delivered[1]
        IN  /\ Len(inv.delivered) = 1
            /\ Len(patients) = 0 => ~result.found
            /\ Len(patients) = 1 => result.found /\ Describes(result, patients[1])
            /\ Len(patients) >= 2 =>
                   /\ result.found
                   /\ "multiple_matches" \in DOMAIN result /\ result.multiple_matches
                   /\ "patients" \in DOMAIN result
                   /\ Len(result.patients) = Len(patients)
                   /\ \A i \in DOMAIN patients : Describes(result.patients[i], patients[i])

\* the service returned two patients with the same name and date of birth
C20_Witness ==
    /\ inv.handler = "find_patient" /\ ServiceReturned
    /\ Len(last.out.value) = 2
    /\ last.out.value[1] # last.out.value[2]
    /\ inv.delivered[1].multiple_matches

(***************************************************************************)
(* Properties of what the transports return.                               *)
(***************************************************************************)
\* the status an operation's Appointment must have
StatusOf(op) == IF op = "create" THEN "scheduled" ELSE "cancelled"

\* C21: on both transports an Appointment returned by create_appointment
\* has status scheduled and one returned by cancel_appointment has status
\* cancelled, and an operation that raised returned nothing
C21_StatusFollowsOperation ==
    /\ \A c \in Calls :
           (calls[c].pc = "done" /\ calls[c].op \in {"create", "cancel"}) =>
               IF calls[c].outcome = "return"
               THEN calls[c].value.status = StatusOf(calls[c].op)
               ELSE calls[c].outcome = "raise" /\ calls[c].value = 0
    /\ (pwop.pc = "done" /\ pwop.op \in {"create", "cancel"}) =>
           IF pwop.out.kind = "return"
           THEN pwop.out.value.status = StatusOf(pwop.op)
           ELSE pwop.out.kind = "raise" /\ pwop.out.value = <<>>

\* the UI transport cancelled an appointment and returned it
C21_Witness ==
    /\ pwop.pc = "done" /\ pwop.op = "cancel"
    /\ pwop.out.kind = "return"
    /\ pwop.out.value.status = "cancelled"
    /\ pwop.matched > 0

(***************************************************************************)
(* Properties of the parsing of search results.                            *)
(***************************************************************************)
\* year, month and day name a day of the calendar
CalendarDate(year, month, day) ==
    year >= 1 /\ month \in 1..12 /\ day \in 1..DaysInMonth(year, month)

\* the text of a row has a name of two words or more and a parenthesized
\* date that is a day of the calendar
RowParses(row) ==
    LET match == re_search(row.text)
    IN  /\ match # <<>>
        /\ Len(split(match.name)) >= 2
        /\ CalendarDate(Number(match.year), Number(match.month), Number(match.day))

\* the patients of the rows that have an id and parse, in the rows' order
PatientsOf(rows) ==
    LET kept == SelectSeq(rows, LAMBDA row :
                    extract_id_from_url(row.href) # <<>> /\ RowParses(row))
    IN  [i \in DOMAIN kept |->
            LET parsed == parse_name_dob(kept[i].text).value
            IN  Patient(extract_id_from_url(kept[i].href), parsed.first_name,
                        parsed.last_name, parsed.dob)]

\* the date of birth a user of a search answer has: its dob when that is
\* an ISO date, none (<<>>) otherwise
DobOf(user) ==
    IF user.dob \in {Null, Missing} THEN <<>> ELSE date_fromisoformat(user.dob.s)

\* C22: a search does not fail because of one record's date: the structured
\* transport returns one Patient per user, in order, with the date of birth
\* absent when it is no valid ISO date; the UI transport returns the rows
\* that parse, in order, and skips the others; neither raises
C22_SearchToleratesBadDates ==
    /\ \A c \in Calls :
           (calls[c].pc = "done" /\ calls[c].op = "search" /\ calls[c].gql = "return") =>
               /\ calls[c].outcome = "return"
               /\ Len(calls[c].value) = Len(calls[c].last.users)
               /\ \A i \in DOMAIN calls[c].value :
                      /\ calls[c].value[i].patient_id = calls[c].last.users[i].id.s
                      /\ calls[c].value[i].date_of_birth = DobOf(calls[c].last.users[i])
    /\ (pwop.pc = "done" /\ pwop.op = "search" /\ pwop.scanned) =>
           /\ pwop.out.kind = "return"
           /\ pwop.out.value = PatientsOf(pwop.rows)

(***************************************************************************)
(* Properties of the handles a transport owns.                             *)
(***************************************************************************)
\* C23: between the public operations of one PlaywrightHealthieClient at
\* most one browser it launched is open, and once close() has returned no
\* browser and no driver it started is left
C23_AtMostOneBrowser ==
    /\ pwop.pc \in {"idle", "done"} => pw.browsers <= 1
    /\ (pwop.pc = "idle" /\ pwop.op = "close") => (pw.browsers = 0 /\ pw.drivers = 0)

(***************************************************************************)
(* Properties of the headers of a data request.                            *)
(***************************************************************************)
\* call c sends a data request in this step
SendsData(c) == calls'[c].pc = "await_data" /\ calls'[c].opData > calls[c].opData

\* the data request the step sent for call c
Sent(c) == calls'[c].sent[Len(calls'[c].sent)]

\* C24: every data request carries Authorization: Bearer <t> with t the
\* token the client has cached when the request goes out, and
\* AuthorizationSource: Web; a request re-sent after a re-authentication
\* carries the token that sign-in returned, not the one the rejected
\* request carried
C24_BearerOfCachedToken ==
    [][\A c \in Calls : SendsData(c) =>
          /\ token' # 0
          /\ Sent(c).headers.Authorization = <<"Bearer", token'>>
          /\ Sent(c).headers.AuthorizationSource = "Web"
          /\ (calls[c].pc = "await_signin" /\ calls[c].retries = 1) =>
                 /\ token' = issued' /\ issued' > issued
                 /\ Len(calls'[c].sent) = 2
                 /\ calls'[c].sent[1].headers.Authorization # Sent(c).headers.Authorization
                 /\ IsAuthRejection(calls[c].last)]_vars

\* a request was rejected and re-sent with another bearer token
C24_Witness ==
    \E c \in Calls :
        /\ calls[c].retries = 1 /\ Len(calls[c].sent) = 2 /\ calls[c].hadToken
        /\ calls[c].sent[2].headers.Authorization = <<"Bearer", token>>
        /\ calls[c].sent[1].headers.Authorization # calls[c].sent[2].headers.Authorization
        /\ calls[c].sent[2].headers.AuthorizationSource = "Web"

(***************************************************************************)
(* Properties of a failed sign-in.                                         *)
(***************************************************************************)
\* the last signIn request of the invocation of _graphql in progress was
\* answered with messages, without a token, or not at all
SignInFailed(k) == k.signin.kind \in {"messages", "notoken", "exc", "both"}

\* C25 as stated: when sign-in fails the operation raises
\* EHRUnavailableError, no token is cached and the data request the sign-in
\* was for is never sent
C25_FailedSignInRaises ==
    \A c \in Calls :
        LET k == calls[c] IN
        SignInFailed(k) =>
            /\ k.pc = "done" /\ k.outcome = "raise" /\ k.exc = "EHRUnavailableError"
            /\ token = 0
            /\ Len(k.sent) = k.retries

\* C25 amended: when sign-in fails _graphql raises EHRUnavailableError,
\* which search, create and cancel propagate and health_check turns into
\* False; no token is cached and the data request the sign-in was for is
\* never sent
C25_FailedSignInEndsUnsent ==
    \A c \in Calls :
        LET k == calls[c] IN
        SignInFailed(k) =>
            /\ k.pc = "done" /\ k.gql = "raise"
            /\ IF k.op = "health"
               THEN k.outcome = "return" /\ k.value = 0
               ELSE k.outcome = "raise" /\ k.exc = "EHRUnavailableError"
            /\ token = 0
            /\ Len(k.sent) = k.retries

\* a create whose signIn was answered with messages next to a token
C25_Witness ==
    \E c \in Calls :
        /\ calls[c].signin.kind = "both" /\ calls[c].op = "create"
        /\ calls[c].outcome = "raise" /\ calls[c].sent = <<>> /\ token = 0

(***************************************************************************)
(* Properties of the helper functions.                                     *)
(***************************************************************************)
\* the hour of the 12-hour clock as it is written, by hour mod 12
TwelveHour ==
    << <<"1","2">>, <<"1">>, <<"2">>, <<"3">>, <<"4">>, <<"5">>, <<"6">>, <<"7">>,
       <<"8">>, <<"9">>, <<"1","0">>, <<"1","1">> >>

\* H:MM AM|PM of an hour and a minute
TwelveHourText(hour, minute) ==
    TwelveHour[(hour % 12) + 1] \o <<":">>
        \o <<DigitChars[(minute \div 10) + 1], DigitChars[(minute % 10) + 1]>>
        \o <<" ">> \o (IF hour < 12 THEN <<"A","M">> ELSE <<"P","M">>)

\* C26: time_to_12h writes every time of day as H:MM AM|PM with H the hour
\* mod 12, 12 for 0, without a leading zero, MM the minute in two digits,
\* AM exactly before noon; midnight is 12:00 AM, noon 12:00 PM, and no two
\* hour/minute pairs are written the same
C26_TimeTo12h ==
    (fmt.fn = "time_to_12h" /\ fmt.pc = "returned") =>
        /\ fmt.result = TwelveHourText(fmt.time[1], fmt.time[2])
        /\ fmt.time = <<0, 0, 0, 0>> => fmt.result = <<"1","2",":","0","0"," ","A","M">>
        /\ fmt.time = <<12, 0, 0, 0>> => fmt.result = <<"1","2",":","0","0"," ","P","M">>
        /\ \A h \in Hours, m \in Minutes :
               time_to_12h(<<h, m, 0, 0>>) = fmt.result => <<h, m, 0, 0>> = fmt.time

\* noon has been written
C26_Witness ==
    fmt.fn = "time_to_12h" /\ fmt.pc = "returned" /\ fmt.time = <<12, 0, 0, 0>>
        /\ fmt.result = <<"1","2",":","0","0"," ","P","M">>

\* where the text has a parenthesized date (M/D/YYYY)
ParenDates(text) == {p \in 1..Len(text) : DateAt(text, p) # <<>>}

\* the name before the date that starts at p: what its line has before it
NameBefore(text, p) ==
    LET breaks == {0} \cup {j \in 1..(p - 1) : text[j] = "\n"}
        start == CHOOSE j \in breaks : \A k \in breaks : k <= j
    IN  strip(SubSeq(text, start + 1, p - 1))

\* C27: parse_name_dob on text with <name> (M/D/YYYY) returns the first
\* word of the name, the other words joined by a space, and the date; it
\* returns no match when the text has no parenthesized date, when the name
\* is a single word, and when the name starts with a digit
C27_ParseNameDob ==
    (fmt.fn = "parse_name_dob" /\ fmt.pc = "returned") =>
        IF ParenDates(fmt.text) = {} THEN fmt.out = Return(<<>>)
        ELSE LET p == Least(ParenDates(fmt.text))
                 name == NameBefore(fmt.text, p)
                 words == split(name)
                 groups == DateAt(fmt.text, p)
             IN  IF Len(words) < 2 \/ IsDigit(name[1]) THEN fmt.out = Return(<<>>)
                 ELSE fmt.out = Return([first_name |-> words[1],
                                        last_name |-> Join(<<" ">>, Tail(words)),
                                        dob |-> <<Number(groups.year), Number(groups.month),
                                                  Number(groups.day)>>])

(***************************************************************************)
(* Properties of ToolCallFillerProcessor.                                  *)
(***************************************************************************)
\* where in `pushed` the TTSSpeakFrames built for the call `id` are
FillersOf(id) ==
    {i \in DOMAIN filler.pushed :
        filler.pushed[i].frame.n = 0 /\ filler.pushed[i].frame.tool_call_id = id}

\* C28: when the result frame of a tool call is processed while the filler
\* task of the call is still in its sleep, the task is cancelled and no
\* TTSSpeakFrame is pushed for the call, then or later
C28_FastResultCancelsFiller ==
    \A t \in DOMAIN filler.tasks :
        filler.tasks[t].resultAt = "sleeping" =>
            /\ filler.tasks[t].state \in {"cancelling", "cancelled"}
            /\ FillersOf(filler.tasks[t].id) = {}
            /\ filler.pending[filler.tasks[t].id] = 0

\* a filler was cancelled, its task has ended and every frame has arrived
C28_Witness ==
    /\ filler.left = 0
    /\ \E t \in DOMAIN filler.tasks :
           filler.tasks[t].resultAt = "sleeping" /\ filler.tasks[t].state = "cancelled"

\* the phrase of the dict the processor holds for a function name, the
\* default phrase when it holds none
PhraseFor(function_name) ==
    IF function_name \in DOMAIN PhrasesOf(filler)
    THEN PhrasesOf(filler)[function_name]
    ELSE filler.default

\* C29: when the sleep of a call's filler task returns before any result
\* frame of the call was processed, exactly one TTSSpeakFrame has been
\* pushed for the call, downstream, after the in-progress frame of the call
\* was pushed, with the phrase of the tool or the default phrase; until
\* then none has been pushed
C29_SlowCallSpeaksOnce ==
    \A t \in DOMAIN filler.tasks :
        LET id == filler.tasks[t].id IN
        /\ filler.tasks[t].state = "sleeping" => FillersOf(id) = {}
        /\ filler.tasks[t].state = "done" =>
               /\ Cardinality(FillersOf(id)) = 1
               /\ \A i \in FillersOf(id) :
                      /\ filler.pushed[i].frame.kind = "TTSSpeakFrame"
                      /\ filler.pushed[i].direction = "DOWNSTREAM"
                      /\ \E j \in 1..(i - 1) :
                             /\ filler.pushed[j].frame.kind = "FunctionCallInProgressFrame"
                             /\ filler.pushed[j].frame.tool_call_id = id
                             /\ filler.pushed[i].frame.text
                                    = PhraseFor(filler.pushed[j].frame.function_name)

\* a filler with the default phrase was spoken, and the result came later
C29_Witness ==
    \E t \in DOMAIN filler.tasks :
        /\ filler.tasks[t].state = "done" /\ filler.tasks[t].resultAt = "done"
        /\ \E i \in FillersOf(filler.tasks[t].id) :
               filler.pushed[i].frame.text = DEFAULT_FILLER

\* C30: the frames the processor was given are pushed once each, as they
\* came, in the direction they came and in the order they came; the
\* fillers come between them
C30_ForwardsEveryFrame ==
    SelectSeq(filler.pushed, LAMBDA e : e.frame.n # 0) = filler.received

\* a result frame nobody announced went upstream after a filler was spoken
C30_Witness ==
    \E i, j \in DOMAIN filler.pushed :
        /\ i < j /\ filler.pushed[i].frame.n = 0
        /\ filler.pushed[j].frame.kind = "FunctionCallResultFrame"
        /\ filler.pushed[j].direction = "UPSTREAM"
        /\ \A t \in DOMAIN filler.tasks :
               filler.tasks[t].id # filler.pushed[j].frame.tool_call_id

(***************************************************************************)
(* Failures that are not authentication rejections.                        *)
(***************************************************************************)
\* an answer to a data request that fails without rejecting the token: an
\* HTTP error status other than 401/403, a network or decoding exception,
\* an `errors` list without an authentication message in it
OtherFailure(resp) ==
    \/ resp.kind = "http" /\ resp.status \notin {401, 403}
    \/ resp.kind = "exc"
    \/ resp.kind = "errors" /\ ~IsAuthRejection(resp)

\* C31: the step in which a data request of _graphql is answered with a
\* failure that is not an authentication rejection ends that invocation by
\* raising EHRUnavailableError (search, create and cancel pass it on,
\* health_check answers False): the request is not sent again, no signIn is
\* sent, no retry is entered and the cached token stays as it was; an
\* invocation that had not retried has then sent exactly one data request.
C31_OtherFailuresRaiseAtOnce ==
    [][\A c \in Calls :
          LET k == calls[c]
              n == calls'[c]
          IN  (k.pc = "await_data" /\ n # k /\ OtherFailure(n.last)) =>
                  /\ n.pc = "done" /\ n.gql = "raise"
                  /\ n.sent = k.sent /\ n.signins = k.signins
                  /\ n.retries = k.retries
                  /\ token' = token
                  /\ k.retries = 0 => Len(n.sent) = 1
                  /\ n.op # "health" =>
                        (n.outcome = "raise" /\ n.exc = "EHRUnavailableError")
                  /\ n.op = "health" => (n.outcome = "return" /\ n.value = 0)]_vars

C31_Witness ==
    \E c \in Calls :
        LET k == calls[c] IN
        /\ k.pc = "done" /\ k.gql = "raise" /\ OtherFailure(k.last)
        /\ k.last.kind = "errors"
        /\ k.hadToken /\ token # 0 /\ Len(k.sent) = 1 /\ k.signins = 0
        /\ k.op = "search" /\ k.outcome = "raise" /\ k.exc = "EHRUnavailableError"

(***************************************************************************)
(* The poll loop of the UI create.                                         *)
(***************************************************************************)
\* create_appointment has submitted the form and polled at least once
CreatePolled == pwop.op = "create" /\ pwop.polls > 0

CreateRaised(reason) ==
    pwop.out = Raise(AppointmentCreationError(reason, pwop.target.patient_id, 1))

\* the three outcomes: the form found closed, a warning found in the open
\* form, the budget used up with the form open and no warning
FormFoundClosed ==
    /\ pwop.sight.closed
    /\ pwop.out.kind = "return" /\ pwop.out.value.status = "scheduled"

WarningFound ==
    ~pwop.sight.closed /\ pwop.sight.warning /\ CreateRaised(WarningText)

BudgetExhausted ==
    /\ ~pwop.sight.closed /\ ~pwop.sight.warning
    /\ pwop.polls = MAX_POLL_ATTEMPTS /\ CreateRaised(FormDidNotClose)

\* a page call of the last poll raised before the form was found closed
PollRaised ==
    /\ pwop.sight.exc = "count" \/ (pwop.sight.exc = "warning" /\ ~pwop.sight.closed)
    /\ CreateRaised(<<"T","i","m","e","o","u","t">>)

Count(b) == IF b THEN 1 ELSE 0

\* C32 as stated: after submitting the form create_appointment polls at
\* most MAX_POLL_ATTEMPTS times and always ends in exactly one of: form
\* found closed (success, at the last poll too), warning found in the open
\* form (AppointmentCreationError with its text), budget exhausted
\* (AppointmentCreationError "form did not close").
C32_PollEndsInThreeOutcomes ==
    CreatePolled =>
        /\ pwop.polls <= MAX_POLL_ATTEMPTS
        /\ pwop.pc = "done" =>
              Count(FormFoundClosed) + Count(WarningFound) + Count(BudgetExhausted) = 1

\* C32 amended: it ends in exactly one of those three outcomes or, when a
\* page call of a poll raises before the form was found closed, in
\* AppointmentCreationError with that exception's text; within a poll the
\* closure is looked at before the warning; while it polls on, every poll
\* so far found the form open and no warning, within the budget.
C32_PollEndsInFourOutcomes ==
    CreatePolled =>
        /\ pwop.polls <= MAX_POLL_ATTEMPTS
        /\ pwop.pc = "done" =>
              /\ Count(FormFoundClosed) + Count(WarningFound)
                   + Count(BudgetExhausted) + Count(PollRaised) = 1
              /\ (pwop.sight.closed /\ pwop.sight.exc # "count") => FormFoundClosed
              /\ pwop.sight.exc = "none" =>
                    Count(FormFoundClosed) + Count(WarningFound) + Count(BudgetExhausted) = 1
        /\ pwop.pc # "done" =>
              /\ pwop.pc = "create_poll" /\ pwop.polls < MAX_POLL_ATTEMPTS
              /\ ~pwop.sight.closed /\ ~pwop.sight.warning /\ pwop.sight.exc = "none"

\* the form is found closed at the last poll, a warning showing elsewhere
C32_Witness ==
    /\ CreatePolled /\ pwop.pc = "done" /\ pwop.polls = MAX_POLL_ATTEMPTS
    /\ pwop.sight.closed /\ pwop.sight.warning /\ pwop.sight.exc = "none"
    /\ FormFoundClosed

(***************************************************************************)
(* The session check of the UI transport.                                  *)
(***************************************************************************)
\* the operation is past _ensure_logged_in, at work on the page
BodyPcs == {"navigate", "status", "poll", "search_body", "create_body", "create_poll",
            "health_goto"}

LoginPcs == {"login_start", "login_launch", "login_page"}

\* this step is the call of a public operation
OperationStarts == pwop.pc = "idle" /\ pwop'.pc # "idle" /\ pwop'.op \in PwOps

\* C33: each of search, create, cancel and health check begins with the
\* session check.  With a page whose URL can be read and is not the sign-in
\* page the operation goes on with that page and logs in at no point; with
\* a page on the sign-in page, or whose URL cannot be read, the browser of
\* that session is closed and the page forgotten in that same step, and the
\* operation reaches its body only after one complete login; a login
\* begins only in the first step of an operation.
C33_SessionCheckedAtStart ==
    [][/\ (OperationStarts /\ pw.page = "app" /\ ~pwop'.urlFails) =>
              /\ pw' = pw /\ pwop'.pc \in BodyPcs /\ pwop'.logins = 0
       /\ (OperationStarts /\ (pw.page = "sign_in" \/ pwop'.urlFails)) =>
              /\ ~pw'.browser /\ ~pw'.playwright /\ pw'.page = "none"
              /\ pw'.browsers = pw.browsers - 1 /\ pw'.drivers = pw.drivers - 1
              /\ pwop'.pc = "login_start" /\ pwop'.logins = 1
       /\ (pwop'.pc \in LoginPcs /\ pwop.pc \notin LoginPcs) => OperationStarts
       /\ (pwop'.pc \in BodyPcs /\ pwop.pc \notin BodyPcs) =>
              /\ pw'.page = "app"
              /\ \/ OperationStarts /\ pw' = pw /\ pwop'.logins = 0
                 \/ pwop.pc = "login_page" /\ pwop'.logins = 1 /\ pw'.browser
       /\ (pwop.pc \in BodyPcs /\ pwop'.pc # "idle") =>
              (pwop'.logins = pwop.logins /\ pwop'.pc \notin LoginPcs /\ pw' = pw)]_vars

\* an operation that found its session expired is at work after a new login
C33_Witness ==
    /\ pwop.pc = "search_body" /\ pwop.before.page = "sign_in"
    /\ pwop.logins = 1 /\ pw.page = "app" /\ pw.browsers = 1

(***************************************************************************)
(* A login that stays on the sign-in page.                                 *)
(***************************************************************************)
\* C34: when the URL still shows the sign-in page after the login form was
\* submitted, the page is dropped and _ensure_logged_in raises
\* EHRUnavailableError "still on sign-in page" (search, create and cancel
\* pass it on, health_check answers False).  The page of a failed login is
\* never worked on: an operation is in its body only on a page of the
\* application, and the operation called next, finding no page, begins a
\* login.
C34_FailedLoginDropsSession ==
    [][/\ pwop'.landed = "sign_in" =>
              /\ pwop'.pc = "done" /\ pw'.page = "none"
              /\ pwop'.op # "health" => pwop'.out = StillOnSignIn
              /\ pwop'.op = "health" => pwop'.out = Return(FALSE)
       /\ pwop'.pc \in BodyPcs => pw'.page = "app"
       /\ (pwop.landed = "sign_in" /\ pwop'.pc = "idle") =>
              (pw'.page = "none" /\ pw'.browser)
       /\ (OperationStarts /\ pw.page = "none" /\ pw.browser) =>
              (pwop'.pc = "login_start" /\ pwop'.logins = 1)]_vars

\* the operation after a failed login is logging in again
C34_Witness ==
    /\ pwop.pc = "login_page" /\ pwop.before.page = "none" /\ pwop.before.browser
    /\ pwop.op = "cancel"

(***************************************************************************)
(* The item the UI cancel opens.                                           *)
(***************************************************************************)
\* the list was loaded and scanned for the date and time asked for
CancelScanned == pwop.op = "cancel" /\ pwop.items # <<>>

\* the items whose text has both the short date and the 12-hour time in it
Hits ==
    {i \in DOMAIN pwop.items :
        /\ Contains(date_to_short(pwop.target.date), pwop.items[i])
        /\ Contains(time_to_12h(pwop.target.time), pwop.items[i])}

\* C35: cancel_appointment(patient_id, date, time) clicks the first item of
\* the list whose text contains both strings and no other; when no item
\* does, it raises AppointmentCancellationError and has opened no item, set
\* no status and saved (and polled) nothing.
C35_CancelClicksFirstMatch ==
    CancelScanned =>
        /\ Hits # {} => pwop.matched = Least(Hits)
        /\ Hits = {} =>
              /\ pwop.pc = "done" /\ pwop.matched = 0 /\ pwop.polls = 0
              /\ pwop.out.kind = "raise"
              /\ pwop.out.exc.type = "AppointmentCancellationError"

(***************************************************************************)
(* The appointment the UI cancel opens is the one asked for.               *)
(***************************************************************************)
\* the text of a list item begins with its date and its time
Shows(text, date, time) ==
    LET head == date_to_short(date) \o <<" ">> \o time_to_12h(time) \o <<" ">>
    IN  Len(text) >= Len(head) /\ SubSeq(text, 1, Len(head)) = head

\* C40: the item cancel_appointment opens, and goes on to set to
\* Cancelled, displays the date and the time that were asked for; an item
\* of another time whose text merely contains the time string is never
\* the one opened.
C40_CancelOpensRequestedSlot ==
    (pwop.op = "cancel" /\ pwop.matched > 0) =>
        Shows(pwop.items[pwop.matched], pwop.target.date, pwop.target.time)

(***************************************************************************)
(* Every tool call is answered.                                            *)
(***************************************************************************)
\* the four ways through a handler
RejectedArguments == inv.handler # "none" /\ last = NoCall

ServiceRaisedEHRError ==
    /\ inv.handler # "none" /\ last # NoCall
    /\ last.out.kind = "raise" /\ last.out.exc.type \in TaxonomyTypes

ServiceRaisedOther ==
    /\ inv.handler # "none" /\ last # NoCall
    /\ last.out.kind = "raise" /\ last.out.exc.type \notin TaxonomyTypes

\* C36: every invocation of handle_find_patient, handle_create_appointment
\* and handle_cancel_appointment has passed exactly one result to
\* result_callback when it returns, and no exception leaves it: after a
\* rejection of the arguments, after the service returned, after the
\* service raised an EHRError, after it raised anything else.
C36_ResultDeliveredOnce ==
    inv.handler # "none" =>
        /\ Len(inv.delivered) = 1
        /\ ~inv.escaped
        /\ RejectedArguments \/ ServiceReturned \/ ServiceRaisedEHRError \/ ServiceRaisedOther

\* the service raised something that is not an EHRError during a cancel
C36_Witness ==
    /\ inv.handler = "cancel_appointment" /\ ServiceRaisedOther
    /\ Len(inv.delivered) = 1 /\ ~inv.delivered[1].success
    /\ Contains(<<"u","n","e","x","p","e","c","t","e","d">>, inv.delivered[1].message)

(***************************************************************************)
(* How many signIn requests a client sends.                                *)
(***************************************************************************)
\* the signIn requests a client may have sent by now if each answers a
\* missing token: the one for the token it was built without, and one for
\* every data request rejected
SignInsOwed == wire.rejections + (IF wire.preset THEN 0 ELSE 1)

\* C37 as stated: a signIn request is in flight only while no token is
\* cached; over a sequential series of operations the signIn requests sent
\* are at most the rejections of data requests plus one (plus zero with a
\* token given at construction); an invocation that found a token cached
\* and was not rejected has sent no signIn.
C37_SignInsBoundedByRejections ==
    /\ \A c \in Calls : calls[c].pc = "await_signin" => token = 0
    /\ wire.signins <= SignInsOwed
    /\ \A c \in Calls :
          (calls[c].hadToken /\ calls[c].retries = 0) => calls[c].signins = 0

\* C37 amended: the same, the bound being the rejections plus the signIn
\* requests that failed plus one (plus zero with a token given).
C37_SignInsBoundedByFailures ==
    /\ \A c \in Calls : calls[c].pc = "await_signin" => token = 0
    /\ wire.signins <= SignInsOwed + wire.failures
    /\ \A c \in Calls :
          (calls[c].hadToken /\ calls[c].retries = 0) => calls[c].signins = 0

\* three signIn requests: for the missing token, after a rejection, and
\* after a signIn that failed
C37_Witness ==
    /\ wire.counted /\ ~wire.preset /\ wire.signins = 3 /\ wire.rejections = 1 /\ wire.failures = 1
    /\ \E c \in Calls : calls[c].pc = "await_data" /\ calls[c].signins = 1

(***************************************************************************)
(* Operations in flight together on one client.                            *)
(***************************************************************************)
\* calls whose request is awaited
Awaiting == {c \in Calls : calls[c].pc \in {"await_signin", "await_data"}}

\* call c sends the data request of a retry in this step
SendsRetry(c) ==
    /\ calls'[c].retries >= 1
    /\ calls'[c].retries >= calls[c].retries
    /\ Len(calls'[c].sent) > Len(calls[c].sent)

\* each _graphql invocation retries at most once and sends at most two
\* data requests, and ends by returning or by raising EHRUnavailableError
\* (which health_check turns into False)
RetryBounded ==
    \A c \in Calls :
        LET k == calls[c]
        IN  /\ k.retries <= 1 /\ Len(k.sent) <= 2 /\ k.signins <= 2
            /\ k.pc = "done" =>
                  /\ k.gql \in {"return", "raise"}
                  /\ k.gql = "raise" =>
                        IF k.op = "health" THEN k.outcome = "return" /\ k.value = 0
                        ELSE k.outcome = "raise" /\ k.exc = "EHRUnavailableError"

\* the request of a retry is sent in the step in which the signIn of the
\* same invocation, sent after its rejection, is answered, and carries the
\* token of that answer
RetryCarriesOwnToken ==
    \A c \in Calls :
        SendsRetry(c) =>
            /\ calls[c].pc = "await_signin" /\ calls[c].retries = 1
            /\ calls[c].last.kind # "none" /\ Rejects(calls[c].last)
            /\ issued' = issued + 1
            /\ calls'[c].sent[Len(calls'[c].sent)].tok = issued'
            /\ \A d \in Calls : \A i \in DOMAIN calls[d].sent :
                   calls[d].sent[i].tok < issued'

\* C38: with several operations in flight on one GraphQLHealthieClient, in
\* every interleaving each _graphql invocation performs at most one retry
\* and at most two data requests, each retry is sent with the token of a
\* signIn that completed after the invocation's own rejection, each
\* invocation ends by returning or raising EHRUnavailableError, and every
\* operation in flight comes to its end.
C38_ConcurrentRetriesBounded ==
    /\ []RetryBounded
    /\ [][RetryCarriesOwnToken]_vars
    /\ \A c \in Coroutines : (c \in Awaiting) ~> (calls[c].pc = "done")

\* two operations sent with the same token, both rejected, each retried
\* with the token of its own signIn
C38_Witness ==
    /\ Cardinality(Awaiting) = 2
    /\ \A c \in Calls :
          /\ calls[c].pc = "await_data" /\ calls[c].retries = 1 /\ Len(calls[c].sent) = 2
    /\ calls[1].sent[1].tok = calls[2].sent[1].tok
    /\ calls[1].sent[2].tok # calls[2].sent[2].tok

(***************************************************************************)
(* Fillers of several tool calls at once.                                  *)
(***************************************************************************)
\* positions in `pushed` of the frames of kind `kind` for the call `id`
\* (a filler is the TTSSpeakFrame the processor built for the call)
PushedAt(kind, id) ==
    {i \in DOMAIN filler.pushed :
        /\ filler.pushed[i].frame.kind = kind
        /\ filler.pushed[i].frame.tool_call_id = id
        /\ kind = "TTSSpeakFrame" => filler.pushed[i].frame.n = 0}

\* no filler of a call is pushed after the result frame of the call, the
\* call having been in progress before its result
NoFillerAfterResult ==
    \A id \in ToolCallIds :
        \A p \in PushedAt("FunctionCallInProgressFrame", id) :
            \A r \in PushedAt("FunctionCallResultFrame", id) :
                \A s \in PushedAt("TTSSpeakFrame", id) :
                    p < r => s < r

\* the tasks whose cancellation is asked for in this step
NewlyCancelled ==
    {t \in DOMAIN filler.tasks :
        filler.tasks[t].state # "cancelling" /\ filler'.tasks[t].state = "cancelling"}

\* a task is cancelled only in the step that processes a result frame of
\* its own call, and that step leaves the tasks of other calls and their
\* entries in the pending map as they were
OwnResultCancels ==
    \A t \in NewlyCancelled :
        LET got == filler'.received[Len(filler'.received)].frame
        IN  /\ Len(filler'.received) = Len(filler.received) + 1
            /\ got.kind = "FunctionCallResultFrame"
            /\ got.tool_call_id = filler.tasks[t].id
            /\ \A u \in DOMAIN filler.tasks :
                  filler.tasks[u].id # got.tool_call_id =>
                      /\ filler'.tasks[u] = filler.tasks[u]
                      /\ filler'.pending[filler.tasks[u].id] = filler.pending[filler.tasks[u].id]

\* every call has had its result frame and none of its timers is left
AllSettled ==
    \A t \in DOMAIN filler.tasks :
        /\ filler.tasks[t].resultAt # "none"
        /\ filler.tasks[t].state \in {"done", "cancelled"}

PendingEmpty == \A id \in ToolCallIds : filler.pending[id] = 0

\* C39: whatever the order of in-progress frames, result frames and timer
\* expiries of several tool calls, no filler of a call is pushed after the
\* call's result frame was processed, a result frame cancels only the
\* filler of its own tool_call_id, and when every call has its result and
\* every timer has fired or been cancelled the pending map is empty.
C39_FillersKeptApart ==
    /\ []NoFillerAfterResult
    /\ [][OwnResultCancels]_vars
    /\ [](AllSettled => PendingEmpty)

\* two calls in progress, the result of one arrived in time and cancelled
\* its filler, the other's filler was spoken, and then its result came
C39_Witness ==
    /\ Len(filler.tasks) = 2 /\ AllSettled /\ PendingEmpty
    /\ \E t, u \in DOMAIN filler.tasks :
          /\ filler.tasks[t].state = "cancelled" /\ filler.tasks[t].resultAt = "sleeping"
          /\ filler.tasks[u].state = "done" /\ filler.tasks[u].resultAt = "done"
          /\ \E r \in PushedAt("FunctionCallResultFrame", filler.tasks[t].id) :
                \E s \in PushedAt("TTSSpeakFrame", filler.tasks[u].id) : r < s

====
